---- MODULE Spec2Model ----
(***************************************************************************)
(* DSR / WSR tracker (streamlit_app.py): the ledger-merge engine           *)
(* (ensure_month_sheet_and_days, ensure_month_sheet_and_weeks,             *)
(* find_week_column_for_date, update_dsr_wb_bytes, update_wsr_wb_bytes)    *)
(* and the scan / confirm handlers that move ledgers and the processed-id  *)
(* document between the session and OneDrive.                              *)
(*                                                                         *)
(* Representation.                                                         *)
(*   - a Python str is a tagged tuple: <<"str", s>> for free text, and      *)
(*     <<format, fields...>> for the result of a strftime / isoformat, so   *)
(*     that formatting and parsing are different operators and two         *)
(*     formats of one date are different strings;                          *)
(*   - None, as a cell value or string, is <<>>;                           *)
(*   - a datetime.date is a record [year, month, day]; NoDate is the None  *)
(*     a date-valued expression can yield;                                 *)
(*   - a worksheet is openpyxl's _cells: a function from the <<row, col>>  *)
(*     that exist to [value, has_style]; ws.cell(r, c) creates the cell;   *)
(*   - a workbook is [sheetnames, sheets].                                 *)
(***************************************************************************)
EXTENDS Integers, Sequences, FiniteSets, TLC

VARIABLES
    dsrFile,    \* OneDrive DSR.xlsx: [exists, wb]
    wsrFile,    \* OneDrive WSR.xlsx: [exists, wb]
    procFile,   \* OneDrive processed_messages.json: [exists, ids]
    dfDsr,      \* st.session_state["df_dsr_preview"]: [shown, rows]
    dfWsr,      \* st.session_state["df_wsr_preview"]: [shown, rows]
    lastOp      \* what the last handler / merge did (its locals and results)

vars == <<dsrFile, wsrFile, procFile, dfDsr, dfWsr, lastOp>>

-----------------------------------------------------------------------------
(* Values *)

None == <<>>

NoDate == [year |-> 0, month |-> 0, day |-> 0]

Str(s) == <<"str", s>>

Date(y, m, d) == [year |-> y, month |-> m, day |-> d]

Max(S) == CHOOSE x \in S : \A y \in S : y <= x

Min(S) == CHOOSE x \in S : \A y \in S : x <= y

-----------------------------------------------------------------------------
(* datetime.date arithmetic, as CPython's datetime computes it *)

IsLeap(y) == y % 4 = 0 /\ (y % 100 # 0 \/ y % 400 = 0)

DaysInMonthTable == <<31, 28, 31, 30, 31, 30, 31, 31, 30, 31, 30, 31>>

\* calendar.monthrange(year, month)[1]
DaysInMonth(y, m) == IF m = 2 /\ IsLeap(y) THEN 29 ELSE DaysInMonthTable[m]

DaysBeforeMonthTable == <<0, 31, 59, 90, 120, 151, 181, 212, 243, 273, 304, 334>>

DaysBeforeMonth(y, m) ==
    DaysBeforeMonthTable[m] + (IF m > 2 /\ IsLeap(y) THEN 1 ELSE 0)

DaysBeforeYear(y) ==
    ((y - 1) * 365) + ((y - 1) \div 4) - ((y - 1) \div 100) + ((y - 1) \div 400)

\* date.toordinal(): 1 January of year 1 is day 1
ToOrdinal(d) == DaysBeforeYear(d.year) + DaysBeforeMonth(d.year, d.month) + d.day

\* date.fromordinal(n)
FromOrdinal(ordinal) ==
    LET n0   == ordinal - 1
        n400 == n0 \div 146097
        r400 == n0 % 146097
        n100 == r400 \div 36524
        r100 == r400 % 36524
        n4   == r100 \div 1461
        r4   == r100 % 1461
        n1   == r4 \div 365
        n    == r4 % 365
        year == (n400 * 400) + 1 + (n100 * 100) + (n4 * 4) + n1
        leap == n1 = 3 /\ (n4 # 24 \/ n100 = 3)
        mGuess == (n + 50) \div 32
        before == DaysBeforeMonthTable[mGuess]
                    + (IF mGuess > 2 /\ leap THEN 1 ELSE 0)
        month == IF before > n THEN mGuess - 1 ELSE mGuess
        prec  == IF before > n
                 THEN before - (DaysInMonthTable[month]
                                 + (IF month = 2 /\ leap THEN 1 ELSE 0))
                 ELSE before
    IN  IF n1 = 4 \/ n100 = 4
        THEN Date(year - 1, 12, 31)
        ELSE Date(year, month, (n - prec) + 1)

\* date.weekday(): Monday is 0, Sunday is 6
Weekday(d) == (ToOrdinal(d) + 6) % 7

\* d + timedelta(days=k)
AddDays(d, k) == FromOrdinal(ToOrdinal(d) + k)

\* d1 <= d2 on dates
DateLE(d1, d2) == ToOrdinal(d1) <= ToOrdinal(d2)

IsValidDate(y, m, d) ==
    /\ y >= 1
    /\ m \in 1..12
    /\ d >= 1
    /\ d <= DaysInMonth(y, m)

-----------------------------------------------------------------------------
(* Formatting and parsing of dates *)

\* d.strftime("%d %B %Y"): day, full month name, year
FormatDayLabel(d) == <<"%d %B %Y", d.day, d.month, d.year>>

\* d.strftime("%A")
FormatWeekdayName(d) == <<"%A", Weekday(d)>>

\* d.strftime("%d %b %Y"): day, abbreviated month name, year
FormatShortDate(d) == <<"%d %b %Y", d.day, d.month, d.year>>

\* f"{mono.strftime('%d %b %Y')} - {fri.strftime('%d %b %Y')}"
FormatWeekLabel(mono, fri) ==
    <<"%d %b %Y - %d %b %Y", mono.day, mono.month, mono.year,
                             fri.day, fri.month, fri.year>>

\* d.isoformat()
IsoFormat(d) == <<"iso", d.year, d.month, d.day>>

\* d.strftime("%B %Y")
month_sheet_name(d) == <<"%B %Y", d.month, d.year>>

\* the outcome of an attempt that raises
Raises == [year |-> 0 - 1, month |-> 0, day |-> 0]

\* dateutil_parser.parse(s, dayfirst=False, fuzzy=True).date(): a string
\* holding a day, a month name and a year, or an ISO date, gives that date;
\* "a/b/y" is read month first unless a is over 12; an impossible calendar
\* date and free text holding no date raise
FuzzyParse(s) ==
    IF s[1] \in {"%d %B %Y", "%d %b %Y"}
    THEN IF IsValidDate(s[4], s[3], s[2]) THEN Date(s[4], s[3], s[2]) ELSE Raises
    ELSE IF s[1] = "iso"
    THEN IF IsValidDate(s[2], s[3], s[4]) THEN Date(s[2], s[3], s[4]) ELSE Raises
    ELSE IF s[1] = "%d/%m/%Y"
    THEN IF s[2] > 12
         THEN IF IsValidDate(s[4], s[3], s[2]) THEN Date(s[4], s[3], s[2]) ELSE Raises
         ELSE IF IsValidDate(s[4], s[2], s[3]) THEN Date(s[4], s[2], s[3]) ELSE Raises
    ELSE Raises

fmts ==
    <<"%d %B %Y", "%d %b %Y", "%Y-%m-%d", "%d-%m-%Y", "%d/%m/%Y", "%d/%m/%y",
      "%B %d %Y", "%b %d %Y">>

\* datetime.strptime(s, f).date(): the string has to be of the format
Strptime(s, f) ==
    IF s[1] = f /\ f \in {"%d %B %Y", "%d %b %Y", "%d/%m/%Y"}
    THEN IF IsValidDate(s[4], s[3], s[2]) THEN Date(s[4], s[3], s[2]) ELSE Raises
    ELSE IF s[1] = "iso" /\ f = "%Y-%m-%d"
    THEN IF IsValidDate(s[2], s[3], s[4]) THEN Date(s[2], s[3], s[4]) ELSE Raises
    ELSE Raises

\* for f in fmts: the first format that parses, None when none does
RECURSIVE FirstFormat(_, _)
FirstFormat(s, i) ==
    IF i > Len(fmts) THEN NoDate
    ELSE IF Strptime(s, fmts[i]) # Raises THEN Strptime(s, fmts[i])
    ELSE FirstFormat(s, i + 1)

\* a variant without the try around the fuzzy parser
parse_date_string_Unguarded(s) ==
    IF s = None \/ s = Str("") THEN NoDate ELSE FuzzyParse(s)

\* parse_date_string: None and "" give None; else the date of the fuzzy
\* parser, else that of the first format that parses, else None
parse_date_string(s) ==
    IF s = None \/ s = Str("") THEN NoDate
    ELSE IF FuzzyParse(s) # Raises THEN FuzzyParse(s)
    ELSE FirstFormat(s, 1)

-----------------------------------------------------------------------------
(* openpyxl worksheets *)

BlankCell == [value |-> None, has_style |-> FALSE]

\* Workbook().create_sheet(): a worksheet with no cell
EmptySheet == [p \in {} |-> BlankCell]

\* ws.max_row: 1 for a sheet with no cell
MaxRow(ws) == IF DOMAIN ws = {} THEN 1 ELSE Max({p[1] : p \in DOMAIN ws})

\* ws.max_column: 1 for a sheet with no cell
MaxColumn(ws) == IF DOMAIN ws = {} THEN 1 ELSE Max({p[2] : p \in DOMAIN ws})

\* ws.cell(row=r, column=c).value, as a value alone
Value(ws, r, c) == IF <<r, c>> \in DOMAIN ws THEN ws[<<r, c>>].value ELSE None

\* the side effect of reading ws.cell(row, column) for every <<row, column>>
\* of S: openpyxl creates a blank cell where there was none
Touch(ws, S) ==
    [p \in DOMAIN ws \cup S |-> IF p \in DOMAIN ws THEN ws[p] ELSE BlankCell]

\* ws.cell(row=r, column=c, value=v)
SetValue(ws, r, c, v) ==
    [p \in DOMAIN ws \cup {<<r, c>>} |->
        IF p = <<r, c>>
        THEN [value |-> v,
              has_style |-> IF p \in DOMAIN ws THEN ws[p].has_style ELSE FALSE]
        ELSE ws[p]]

\* Python truthiness of a cell value or string
Truthy(v) == v # None /\ v # Str("")

\* str(val).strip() of a string that carries no surrounding white space
StrStrip(v) == v

\* `name in wb.sheetnames`
HasSheet(wb, name) == \E i \in 1..Len(wb.sheetnames) : wb.sheetnames[i] = name

\* wb[name] = ws, creating the sheet at the end of wb.sheetnames when new
PutSheet(wb, name, ws) ==
    [sheetnames |-> IF HasSheet(wb, name) THEN wb.sheetnames
                    ELSE Append(wb.sheetnames, name),
     sheets |-> [n \in DOMAIN wb.sheets \cup {name} |->
                    IF n = name THEN ws ELSE wb.sheets[n]]]

\* existing[key] = c assigned for c ascending: the last column wins
HeaderIndex(keys, cols) ==
    [k \in {keys[c] : c \in cols} |-> Max({c \in cols : keys[c] = k})]

\* the values of row 1, by column
HeaderRow(ws) == [c \in 1..MaxColumn(ws) |-> Value(ws, 1, c)]

\* existing[label] = col
DictPut(existing, label, col) ==
    [l \in DOMAIN existing \cup {label} |-> IF l = label THEN col ELSE existing[l]]

Row1(ws) == {<<1, c>> : c \in 1..MaxColumn(ws)}

-----------------------------------------------------------------------------
(* LedgerSchema, daily *)

\* a variant that writes a new header over the last column
NewColumnIndexShifted(ws) == MaxColumn(ws)

\* the column a new header is written in: col = ws.max_column + 1
NewColumnIndex(ws) == MaxColumn(ws) + 1

\* the header scan of ensure_month_sheet_and_days
DayExisting(ws) ==
    LET row == HeaderRow(ws)
    IN  HeaderIndex([c \in DOMAIN row |-> StrStrip(row[c])],
                    {c \in DOMAIN row : Truthy(row[c])})

RECURSIVE EnsureDaysLoop(_, _, _, _, _)
EnsureDaysLoop(ws, existing, year, month, day) ==
    IF day > DaysInMonth(year, month)
    THEN [ws |-> ws, existing |-> existing]
    ELSE LET dt    == Date(year, month, day)
             label == FormatDayLabel(dt)
         IN  IF label \in DOMAIN existing
             THEN EnsureDaysLoop(ws, existing, year, month, day + 1)
             ELSE LET col == NewColumnIndex(ws)
                      ws1 == SetValue(ws, 1, col, label)
                      ws2 == SetValue(ws1, 2, col, FormatWeekdayName(dt))
                  IN  EnsureDaysLoop(ws2, DictPut(existing, label, col),
                                     year, month, day + 1)

\* a variant that makes the columns from the target day on
FirstDayIsTarget(target_date) == target_date.day

\* for day in range(1, num_days+1): the first day of the loop
FirstDay(target_date) == 1

\* returns the workbook, the sheet's name and the header dictionary
ensure_month_sheet_and_days(wb, target_date) ==
    LET sheet_name == month_sheet_name(target_date)
        ws0 == IF HasSheet(wb, sheet_name)
               THEN wb.sheets[sheet_name]
               ELSE SetValue(SetValue(EmptySheet, 1, 1, Str("Project Name")),
                             1, 2, Str("Resource Name"))
        ws1 == Touch(ws0, Row1(ws0))
        done == EnsureDaysLoop(ws1, DayExisting(ws1),
                               target_date.year, target_date.month,
                               FirstDay(target_date))
    IN  [wb |-> PutSheet(wb, sheet_name, done.ws),
         sheet |-> sheet_name,
         headers |-> done.existing]

-----------------------------------------------------------------------------
(* LedgerSchema, weekly *)

\* a variant whose week ends on the Saturday
week_label_for_date_Saturday(d) ==
    LET monday == AddDays(d, 0 - Weekday(d))
        friday == AddDays(monday, 5)
    IN  FormatWeekLabel(monday, friday)

\* the label of the Monday-Friday of d's week
week_label_for_date(d) ==
    LET monday == AddDays(d, 0 - Weekday(d))
        friday == AddDays(monday, 4)
    IN  FormatWeekLabel(monday, friday)

\* (ws.cell(row=1, column=c).value or "").strip()
WeekKey(v) == IF Truthy(v) THEN StrStrip(v) ELSE Str("")

\* the header dictionary of ensure_month_sheet_and_weeks: every column of
\* row 1 is a key
WeekExisting(ws) ==
    LET row == HeaderRow(ws)
    IN  HeaderIndex([c \in DOMAIN row |-> WeekKey(row[c])], DOMAIN row)

RECURSIVE EnsureWeeksLoop(_, _, _, _)
EnsureWeeksLoop(ws, existing, curr, last) ==
    IF ~DateLE(curr, last)
    THEN [ws |-> ws, existing |-> existing]
    ELSE LET mono  == curr
             fri   == AddDays(mono, 4)
             label == FormatWeekLabel(mono, fri)
             next  == AddDays(curr, 7)
         IN  IF label \in DOMAIN existing
             THEN EnsureWeeksLoop(ws, existing, next, last)
             ELSE LET col == NewColumnIndex(ws)
                  IN  EnsureWeeksLoop(SetValue(ws, 1, col, label),
                                      DictPut(existing, label, col), next, last)

\* a variant that starts one week earlier
StartMondayEarly(first) == AddDays(first, 0 - Weekday(first) - 7)

\* start_monday = first - timedelta(days=first.weekday())
StartMonday(first) == AddDays(first, 0 - Weekday(first))

ensure_month_sheet_and_weeks(wb, any_date) ==
    LET sheet_name == month_sheet_name(any_date)
        ws0 == IF HasSheet(wb, sheet_name)
               THEN wb.sheets[sheet_name]
               ELSE SetValue(EmptySheet, 1, 1, Str("Project Name"))
        year  == any_date.year
        month == any_date.month
        first == Date(year, month, 1)
        last  == Date(year, month, DaysInMonth(year, month))
        start_monday == StartMonday(first)
        ws1  == Touch(ws0, Row1(ws0))
        done == EnsureWeeksLoop(ws1, WeekExisting(ws1), start_monday, last)
    IN  [wb |-> PutSheet(wb, sheet_name, done.ws),
         sheet |-> sheet_name,
         headers |-> done.existing]

\* re.match(r'(\d{1,2}\s+[A-Za-z]{3}\s+\d{4})\s*-\s*(\d{1,2}\s+[A-Za-z]{3}\s+\d{4})', header):
\* a header written with two '%d %b %Y' dates matches, and the groups are the
\* two dates' texts
IsWeekHeader(header) == header # None /\ header[1] = "%d %b %Y - %d %b %Y"

WeekHeaderStart(header) ==
    parse_date_string(<<"%d %b %Y", header[2], header[3], header[4]>>)

WeekHeaderEnd(header) ==
    parse_date_string(<<"%d %b %Y", header[5], header[6], header[7]>>)

\* a variant that leaves the Monday out of the span: start < target_date
WeekColumnHoldsStrict(ws, c, target_date) ==
    LET header == Value(ws, 1, c)
    IN  /\ Truthy(header)
        /\ IsWeekHeader(header)
        /\ LET start == WeekHeaderStart(header)
               end   == WeekHeaderEnd(header)
           IN  /\ start # NoDate
               /\ end # NoDate
               /\ ToOrdinal(start) < ToOrdinal(target_date)
               /\ DateLE(target_date, end)

\* whether column c of ws is one find_week_column_for_date returns for the date
WeekColumnHolds(ws, c, target_date) ==
    LET header == Value(ws, 1, c)
    IN  /\ Truthy(header)
        /\ IsWeekHeader(header)
        /\ LET start == WeekHeaderStart(header)
               end   == WeekHeaderEnd(header)
           IN  /\ start # NoDate
               /\ end # NoDate
               /\ DateLE(start, target_date)
               /\ DateLE(target_date, end)

\* the first column, from column 2, whose span holds the date; 0 is None
find_week_column_for_date(ws, target_date) ==
    LET hits == {c \in 2..MaxColumn(ws) : WeekColumnHolds(ws, c, target_date)}
    IN  IF hits = {} THEN 0 ELSE Min(hits)

-----------------------------------------------------------------------------
(* LedgerMerger *)

Y == Str("Y")

\* the rows the daily row scan reads before it stops, and the row it finds
\* (0 is None): for r in range(3, ws.max_row+1), both key cells equal
DsrRowMatches(ws, r, project, resource) ==
    Value(ws, r, 1) = project /\ Value(ws, r, 2) = resource

\* a variant whose scan starts one row late
DsrFindRowFromFour(ws, project, resource) ==
    LET hits == {r \in 4..MaxRow(ws) : DsrRowMatches(ws, r, project, resource)}
    IN  IF hits = {} THEN 0 ELSE Min(hits)

\* the first row from row 3 whose two key cells equal the pair, 0 for None
DsrFindRow(ws, project, resource) ==
    LET hits == {r \in 3..MaxRow(ws) : DsrRowMatches(ws, r, project, resource)}
    IN  IF hits = {} THEN 0 ELSE Min(hits)

\* the cells the scan creates by reading them: column 1 of every row it
\* visits, column 2 where column 1 equals the project
DsrScanTouched(ws, project, row_idx) ==
    LET upto == IF row_idx = 0 THEN MaxRow(ws) ELSE row_idx
    IN  {<<r, 1>> : r \in 3..upto}
          \cup {<<r, 2>> : r \in {x \in 3..upto : Value(ws, x, 1) = project}}

\* a variant that writes the marker without reading the cell
MarkCellRewrites(ws, row_idx, col_idx) ==
    [ws |-> SetValue(ws, row_idx, col_idx, Y), dup |-> FALSE]

\* a variant that clears a marker it finds
MarkCellToggles(ws, row_idx, col_idx) ==
    IF Value(ws, row_idx, col_idx) = Y
    THEN [ws |-> SetValue(ws, row_idx, col_idx, None), dup |-> TRUE]
    ELSE [ws |-> SetValue(ws, row_idx, col_idx, Y), dup |-> FALSE]

\* `if cell.value == "Y": duplicates += 1  else: cell.value = "Y"; processed += 1`
DsrMarkCell(ws, row_idx, col_idx) ==
    IF Value(ws, row_idx, col_idx) = Y
    THEN [ws |-> Touch(ws, {<<row_idx, col_idx>>}), dup |-> TRUE]
    ELSE [ws |-> SetValue(ws, row_idx, col_idx, Y), dup |-> FALSE]

WsrMarkCell(ws, row_idx, col_idx) ==
    IF Value(ws, row_idx, col_idx) = Y
    THEN [ws |-> Touch(ws, {<<row_idx, col_idx>>}), dup |-> TRUE]
    ELSE [ws |-> SetValue(ws, row_idx, col_idx, Y), dup |-> FALSE]

\* where a record landed, and the workbook with the sheet put back
Landed(ens, row_idx, col_idx, mark) ==
    [wb |-> PutSheet(ens.wb, ens.sheet, mark.ws),
     dup |-> mark.dup,
     at |-> [sheet |-> ens.sheet, row |-> row_idx, col |-> col_idx,
             dup |-> mark.dup]]

\* col_idx = headers.get(date_label), or a new header at the end
DsrColumn(ws, headers, date_label) ==
    IF date_label \in DOMAIN headers /\ headers[date_label] # 0
    THEN [ws |-> ws, col |-> headers[date_label]]
    ELSE [ws |-> SetValue(ws, 1, NewColumnIndex(ws), date_label),
          col |-> NewColumnIndex(ws)]

\* a variant that takes the first row whose key cell is blank
FreshRowReusingBlank(ws, first) ==
    LET blank == {r \in first..MaxRow(ws) : Value(ws, r, 1) = None}
    IN  IF blank = {} THEN (IF MaxRow(ws) + 1 < first THEN first ELSE MaxRow(ws) + 1)
        ELSE Min(blank)

\* a new row goes below the last row, and never above row `first`
FreshRow(ws, first) == IF MaxRow(ws) + 1 < first THEN first ELSE MaxRow(ws) + 1

\* find/create the row of (project, resource); ws has been scanned
DsrRowAt(ws, found, project, resource) ==
    IF found # 0
    THEN [ws |-> ws, row |-> found]
    ELSE [ws |-> SetValue(SetValue(ws, FreshRow(ws, 3), 1, project),
                          FreshRow(ws, 3), 2, resource),
          row |-> FreshRow(ws, 3)]

DsrRowScan(ws, found, project, resource) ==
    DsrRowAt(Touch(ws, DsrScanTouched(ws, project, found)), found, project, resource)

DsrRow(ws, project, resource) ==
    DsrRowScan(ws, DsrFindRow(ws, project, resource), project, resource)

\* one iteration of update_dsr_wb_bytes' loop, in the order of its statements
DsrApplyMark(ens, c, r) == Landed(ens, r.row, c.col, DsrMarkCell(r.ws, r.row, c.col))

DsrApplyRow(ens, c, rec) == DsrApplyMark(ens, c, DsrRow(c.ws, rec.project, rec.resource))

DsrApplyColumn(ens, rec) ==
    DsrApplyRow(ens,
                DsrColumn(ens.wb.sheets[ens.sheet], ens.headers, FormatDayLabel(rec.date)),
                rec)

DsrApplyRecord(wb, rec) == DsrApplyColumn(ensure_month_sheet_and_days(wb, rec.date), rec)

\* a variant whose scan starts one row late
WsrFindRowFromThree(ws, project) ==
    LET hits == {r \in 3..MaxRow(ws) : Value(ws, r, 1) = project}
    IN  IF hits = {} THEN 0 ELSE Min(hits)

\* for r in range(2, ws.max_row+1): column 1 equals the project
WsrFindRow(ws, project) ==
    LET hits == {r \in 2..MaxRow(ws) : Value(ws, r, 1) = project}
    IN  IF hits = {} THEN 0 ELSE Min(hits)

WsrScanTouched(ws, row_idx) ==
    {<<r, 1>> : r \in 2..(IF row_idx = 0 THEN MaxRow(ws) ELSE row_idx)}

\* col_idx = find_week_column_for_date(ws, d), else the column labelled
\* week_label_for_date(d), else a new header at the end
WsrColumnAt(ws, headers, hit, label) ==
    IF hit # 0 THEN [ws |-> ws, col |-> hit]
    ELSE IF label \in DOMAIN headers THEN [ws |-> ws, col |-> headers[label]]
    ELSE [ws |-> SetValue(ws, 1, NewColumnIndex(ws), label),
          col |-> NewColumnIndex(ws)]

WsrColumn(ws, headers, d) ==
    WsrColumnAt(ws, headers, find_week_column_for_date(ws, d), week_label_for_date(d))

\* find/create the row of the project; ws has been scanned
WsrRowAt(ws, found, project) ==
    IF found # 0
    THEN [ws |-> ws, row |-> found]
    ELSE [ws |-> SetValue(ws, FreshRow(ws, 2), 1, project), row |-> FreshRow(ws, 2)]

WsrRowScan(ws, found, project) ==
    WsrRowAt(Touch(ws, WsrScanTouched(ws, found)), found, project)

WsrRow(ws, project) == WsrRowScan(ws, WsrFindRow(ws, project), project)

\* one iteration of update_wsr_wb_bytes' loop, in the order of its statements
WsrApplyMark(ens, c, r) == Landed(ens, r.row, c.col, WsrMarkCell(r.ws, r.row, c.col))

WsrApplyRow(ens, c, rec) == WsrApplyMark(ens, c, WsrRow(c.ws, rec.project))

WsrApplyColumn(ens, rec) ==
    WsrApplyRow(ens, WsrColumn(ens.wb.sheets[ens.sheet], ens.headers, rec.date), rec)

WsrApplyRecord(wb, rec) == WsrApplyColumn(ensure_month_sheet_and_weeks(wb, rec.date), rec)

\* the loop over the records, in input order
ApplyRecord(kind, wb, rec) ==
    IF kind = "daily" THEN DsrApplyRecord(wb, rec) ELSE WsrApplyRecord(wb, rec)

\* a variant that counts a duplicate as processed too
CountedBoth(acc, step) ==
    [wb |-> step.wb,
     processed  |-> acc.processed + 1,
     duplicates |-> acc.duplicates + (IF step.dup THEN 1 ELSE 0),
     at |-> Append(acc.at, step.at)]

\* processed += 1 or duplicates += 1
Counted(acc, step) ==
    [wb |-> step.wb,
     processed  |-> acc.processed + (IF step.dup THEN 0 ELSE 1),
     duplicates |-> acc.duplicates + (IF step.dup THEN 1 ELSE 0),
     at |-> Append(acc.at, step.at)]

RECURSIVE ApplyAll(_, _, _, _)
ApplyAll(kind, acc, records, i) ==
    IF i > Len(records)
    THEN acc
    ELSE ApplyAll(kind, Counted(acc, ApplyRecord(kind, acc.wb, records[i])),
                  records, i + 1)

\* style_workbook_headers_and_ys on one sheet: every cell of row 1 is styled,
\* every cell of rows 2.., columns 3.. is read, and styled when it holds "Y"
StyleSheet(ws) ==
    LET body == {<<r, c>> : r \in 2..MaxRow(ws), c \in 3..MaxColumn(ws)}
        all  == Touch(ws, Row1(ws) \cup body)
    IN  [p \in DOMAIN all |->
            IF p[1] = 1 \/ (p \in body /\ all[p].value = Y)
            THEN [value |-> all[p].value, has_style |-> TRUE]
            ELSE all[p]]

\* auto_fit_column_width iterates ws.columns, which reads every cell of the
\* sheet's bounding rectangle; the widths it sets are not cell content
AutoFitSheet(ws) ==
    IF DOMAIN ws = {} THEN ws
    ELSE Touch(ws, {<<r, c>> : r \in 1..MaxRow(ws), c \in 1..MaxColumn(ws)})

style_workbook_headers_and_ys(wb) ==
    [sheetnames |-> wb.sheetnames,
     sheets |-> [n \in DOMAIN wb.sheets |-> AutoFitSheet(StyleSheet(wb.sheets[n]))]]

\* wb.save(bio); bio.getvalue(): the writer skips a cell that has no value
\* and no style, and load_workbook gives back the cells that were written
SaveBytes(wb) ==
    [sheetnames |-> wb.sheetnames,
     sheets |-> [n \in DOMAIN wb.sheets |->
        LET ws == wb.sheets[n]
            kept == {p \in DOMAIN ws : ws[p].value # None \/ ws[p].has_style}
        IN  [p \in kept |-> ws[p]]]]

\* load_workbook(BytesIO(b))
load_workbook(b) == b

\* the merge before its loop
Untouched(wb) == [wb |-> wb, processed |-> 0, duplicates |-> 0, at |-> <<>>]

\* the formatting passes, the save and the return of a merge; `at` lists
\* where each record landed
Returned(run) ==
    [bytes |-> SaveBytes(style_workbook_headers_and_ys(run.wb)),
     processed |-> run.processed,
     duplicates |-> run.duplicates,
     at |-> run.at]

\* returns (bytes, processed, duplicates)
update_dsr_wb_bytes(wb, dsr_records) ==
    Returned(ApplyAll("daily", Untouched(wb), dsr_records, 1))

update_wsr_wb_bytes(wb, wsr_records) ==
    Returned(ApplyAll("weekly", Untouched(wb), wsr_records, 1))

\* Workbook() with its active sheet titled "Summary" and one appended row
MinimalBytes(headerRow) ==
    LET ws == [p \in {<<1, c>> : c \in 1..Len(headerRow)} |->
                  [value |-> headerRow[p[2]], has_style |-> FALSE]]
    IN  SaveBytes([sheetnames |-> <<Str("Summary")>>,
                   sheets |-> [n \in {Str("Summary")} |-> ws]])

make_minimal_dsr_bytes == MinimalBytes(<<Str("Project Name"), Str("Resource Name")>>)

make_minimal_wsr_bytes == MinimalBytes(<<Str("Project Name")>>)

-----------------------------------------------------------------------------
(* Bounds and the records the merges are driven with *)

MaxBatch == 2

\* daily records {project, resource, date}: two dates of one month for one
\* pair, a second resource of the same project, a date of the next month
DailyRecords ==
    { [project |-> Str("Apollo"), resource |-> Str("Asha"), date |-> Date(2025, 3, 3)],
      [project |-> Str("Apollo"), resource |-> Str("Asha"), date |-> Date(2025, 3, 31)],
      [project |-> Str("Apollo"), resource |-> Str("Ravi"), date |-> Date(2025, 3, 3)],
      [project |-> Str("Atlas"),  resource |-> Str("Asha"), date |-> Date(2025, 4, 1)] }

\* weekly records {project, date}: Thursday 27 and Saturday 29 March 2025 (one
\* week), Monday 31 March and Tuesday 1 April 2025 (one week, two months)
WeeklyRecords ==
    { [project |-> Str("Atlas"),    date |-> Date(2025, 3, 27)],
      [project |-> Str("Atlas"),    date |-> Date(2025, 3, 29)],
      [project |-> Str("Atlas"),    date |-> Date(2025, 3, 31)],
      [project |-> Str("Atlas"),    date |-> Date(2025, 4, 1)],
      [project |-> Str("Borealis"), date |-> Date(2025, 3, 31)] }

Batches(S) == UNION {[1..n -> S] : n \in 1..MaxBatch}

-----------------------------------------------------------------------------
(* State *)

AbsentFile == [exists |-> FALSE, wb |-> [sheetnames |-> <<>>, sheets |-> <<>>]]

StoredFile(bytes) == [exists |-> TRUE, wb |-> bytes]

NoPreview == [shown |-> FALSE, rows |-> <<>>]

\* the record of an operation: which it was, the records it merged, the
\* counters the merge returned and where each record landed, the calls that
\* failed in it, whether it created the ledger file anew, whether its upload
\* of the merged ledger succeeded
NoOp ==
    [kind |-> "none", records |-> <<>>, merged |-> FALSE,
     processed |-> 0, duplicates |-> 0, at |-> <<>>,
     fails |-> {}, recreated |-> FALSE, uploaded |-> FALSE]

MergeOp(kind, records, res) ==
    [NoOp EXCEPT !.kind = kind, !.records = records, !.merged = TRUE,
                 !.processed = res.processed, !.duplicates = res.duplicates,
                 !.at = res.at]

-----------------------------------------------------------------------------
(* The merge engine alone: sequences of daily merges, or of weekly merges,  *)
(* each on the bytes the merge before it returned, from the minimal ledger *)

InitMerge ==
    /\ dsrFile = StoredFile(make_minimal_dsr_bytes)
    /\ wsrFile = StoredFile(make_minimal_wsr_bytes)
    /\ procFile = [exists |-> FALSE, ids |-> {}]
    /\ dfDsr = NoPreview
    /\ dfWsr = NoPreview
    /\ lastOp = NoOp

\* the bytes a merge returned are the ledger the next merge loads
MergedDaily(batch, res) ==
    /\ dsrFile' = StoredFile(res.bytes)
    /\ lastOp' = MergeOp("daily", batch, res)

MergedWeekly(batch, res) ==
    /\ wsrFile' = StoredFile(res.bytes)
    /\ lastOp' = MergeOp("weekly", batch, res)

MergeDaily ==
    /\ lastOp = NoOp
    /\ wsrFile.wb = make_minimal_wsr_bytes
    /\ \E batch \in Batches(DailyRecords) :
          MergedDaily(batch, update_dsr_wb_bytes(load_workbook(dsrFile.wb), batch))
    /\ UNCHANGED <<wsrFile, procFile, dfDsr, dfWsr>>

MergeWeekly ==
    /\ lastOp = NoOp
    /\ dsrFile.wb = make_minimal_dsr_bytes
    /\ \E batch \in Batches(WeeklyRecords) :
          MergedWeekly(batch, update_wsr_wb_bytes(load_workbook(wsrFile.wb), batch))
    /\ UNCHANGED <<dsrFile, procFile, dfDsr, dfWsr>>

\* the call is over: its arguments, counters and locals are gone
Return ==
    /\ lastOp # NoOp
    /\ lastOp' = NoOp
    /\ UNCHANGED <<dsrFile, wsrFile, procFile, dfDsr, dfWsr>>

NextMerge == MergeDaily \/ MergeWeekly \/ Return

SpecMerge == InitMerge /\ [][NextMerge]_vars

-----------------------------------------------------------------------------
(* The merge engine on ledgers that were edited in the spreadsheet: between
   merges someone clears the cells of a data row of a month sheet *)

MaxBlankRows == 1

\* the sheet with the cells of row r emptied
ClearRow(ws, r) ==
    [p \in DOMAIN ws |-> IF p[1] = r THEN [ws[p] EXCEPT !.value = None] ELSE ws[p]]

\* the data rows, from row `first`, of the month sheets of a workbook whose
\* key cell is blank (blank = TRUE) or filled
KeyRows(wb, first, blank) ==
    UNION {{<<n, r>> : r \in {x \in first..MaxRow(wb.sheets[n]) :
                                 (Value(wb.sheets[n], x, 1) = None) = blank}} :
           n \in {m \in DOMAIN wb.sheets : m[1] = "%B %Y"}}

BlankRows(wb, first) == KeyRows(wb, first, TRUE)

ClearedRow(wb, first) ==
    {PutSheet(wb, p[1], ClearRow(wb.sheets[p[1]], p[2])) : p \in KeyRows(wb, first, FALSE)}

ClearDailyRow ==
    /\ lastOp = NoOp
    /\ wsrFile.wb = make_minimal_wsr_bytes
    /\ Cardinality(BlankRows(dsrFile.wb, 3)) < MaxBlankRows
    /\ \E wb \in ClearedRow(dsrFile.wb, 3) : dsrFile' = StoredFile(wb)
    /\ UNCHANGED <<wsrFile, procFile, dfDsr, dfWsr, lastOp>>

ClearWeeklyRow ==
    /\ lastOp = NoOp
    /\ dsrFile.wb = make_minimal_dsr_bytes
    /\ Cardinality(BlankRows(wsrFile.wb, 2)) < MaxBlankRows
    /\ \E wb \in ClearedRow(wsrFile.wb, 2) : wsrFile' = StoredFile(wb)
    /\ UNCHANGED <<dsrFile, procFile, dfDsr, dfWsr, lastOp>>

NextRows == MergeDaily \/ MergeWeekly \/ ClearDailyRow \/ ClearWeeklyRow \/ Return

SpecRows == InitMerge /\ [][NextRows]_vars

-----------------------------------------------------------------------------
(* Mail: what the parsers read out of a message *)

\* the first of the date strings of a block that parses, NoDate if none does
RECURSIVE FirstParsed(_, _)
FirstParsed(ds, i) ==
    IF i > Len(ds) THEN NoDate
    ELSE IF parse_date_string(ds[i]) # NoDate THEN parse_date_string(ds[i])
    ELSE FirstParsed(ds, i + 1)

\* the date of a block: the text after the heading if it parses, else the
\* first date string of the block that parses
BlockDate(blk) ==
    IF parse_date_string(blk.raw_date) # NoDate THEN parse_date_string(blk.raw_date)
    ELSE FirstParsed(blk.dates, 1)

\* the project of a block: the "Project Name" line, else the second line
BlockProject(blk) == IF blk.project # None THEN blk.project ELSE blk.line2

\* a variant that keeps a block that has no "Resource Name"
SelectBlocksUnnamed(blocks) ==
    SelectSeq(blocks,
              LAMBDA blk : /\ BlockDate(blk) # NoDate
                           /\ Truthy(BlockProject(blk)))

\* extract_all_dsr_blocks: of the "Daily Status Report" blocks of a body, in
\* order, those with a parseable date, a project and a "Resource Name"
SelectBlocks(blocks) ==
    SelectSeq(blocks,
              LAMBDA blk : /\ BlockDate(blk) # NoDate
                           /\ Truthy(BlockProject(blk))
                           /\ Truthy(blk.resource))

extract_all_dsr_blocks(body) ==
    LET kept == SelectBlocks(body.blocks)
    IN  [i \in 1..Len(kept) |->
            [project |-> BlockProject(kept[i]), resource |-> kept[i].resource,
             date |-> BlockDate(kept[i])]]

\* the subject, prefixes removed, holds "wsr -", "wsr-" or "weekly status report"
is_valid_wsr_subject(subject) == subject.wsr

\* the text after the first "-" of the subject, None if there is none
extract_wsr_project(subject) == subject.project

\* (start, end) when both ends of the range in the body parse, else (None, None)
extract_wsr_date_range(body) ==
    IF body.range = None THEN <<NoDate, NoDate>>
    ELSE LET s1 == parse_date_string(body.range[1])
             s2 == parse_date_string(body.range[2])
         IN  IF s1 # NoDate /\ s2 # NoDate THEN <<s1, s2>> ELSE <<NoDate, NoDate>>

\* the daily preview rows of one message
DsrRowsOf(m) ==
    LET dsr_blocks == extract_all_dsr_blocks(m.body)
    IN  [i \in 1..Len(dsr_blocks) |->
            [message_id |-> m.id,
             project |-> dsr_blocks[i].project,
             resource |-> dsr_blocks[i].resource,
             date |-> dsr_blocks[i].date]]

\* the weekly preview rows of one message: none or one
WsrRowsOf(m) ==
    LET project == extract_wsr_project(m.subject)
        range == extract_wsr_date_range(m.body)
    IN  IF /\ is_valid_wsr_subject(m.subject) /\ m.hasAttachments
           /\ Truthy(project) /\ range[1] # NoDate /\ range[2] # NoDate
        THEN << [message_id |-> m.id, project |-> project,
                 start_date |-> range[1], end_date |-> range[2],
                 date |-> range[1], hasAttachment |-> TRUE] >>
        ELSE <<>>

RowsOf(kind, m) == IF kind = "dsr" THEN DsrRowsOf(m) ELSE WsrRowsOf(m)

RECURSIVE ParseFrom(_, _, _, _)
ParseFrom(kind, messages, processed_ids, i) ==
    IF i > Len(messages) THEN <<>>
    ELSE (IF messages[i].id \in processed_ids THEN <<>> ELSE RowsOf(kind, messages[i]))
         \o ParseFrom(kind, messages, processed_ids, i + 1)

\* returns (dsr_parsed, wsr_parsed)
parse_inbox_messages_for_preview(messages, processed_ids) ==
    [dsr |-> ParseFrom("dsr", messages, processed_ids, 1),
     wsr |-> ParseFrom("wsr", messages, processed_ids, 1)]

\* pd.DataFrame(preview) with the date columns turned into ISO strings
DsrFrame(preview) ==
    [i \in 1..Len(preview) |-> [preview[i] EXCEPT !.date = IsoFormat(@)]]

WsrFrame(preview) ==
    [i \in 1..Len(preview) |->
        [preview[i] EXCEPT !.date = IsoFormat(@), !.start_date = IsoFormat(@),
                           !.end_date = IsoFormat(@)]]

\* the inbox the scans fetch: a daily report; a message that is both a daily
\* report and a weekly report with its attachment; a weekly report dated on
\* a Saturday; a weekly subject without attachment over a block that has no
\* resource
Inbox ==
    << [id |-> "m1",
        subject |-> [wsr |-> FALSE, project |-> None],
        hasAttachments |-> FALSE,
        body |-> [blocks |-> << [project |-> Str("Apollo"), resource |-> Str("Asha"),
                                 raw_date |-> <<"%d %B %Y", 3, 3, 2025>>,
                                 dates |-> <<>>, line2 |-> None] >>,
                  range |-> None]],
       [id |-> "m2",
        subject |-> [wsr |-> TRUE, project |-> Str("Atlas")],
        hasAttachments |-> TRUE,
        body |-> [blocks |-> << [project |-> Str("Apollo"), resource |-> Str("Ravi"),
                                 raw_date |-> <<"%d %B %Y", 31, 3, 2025>>,
                                 dates |-> <<>>, line2 |-> None] >>,
                  range |-> << <<"%d %b %Y", 31, 3, 2025>>, <<"%d %b %Y", 4, 4, 2025>> >>]],
       [id |-> "m3",
        subject |-> [wsr |-> TRUE, project |-> Str("Borealis")],
        hasAttachments |-> TRUE,
        body |-> [blocks |-> <<>>,
                  range |-> << <<"%d %b %Y", 29, 3, 2025>>, <<"%d %b %Y", 4, 4, 2025>> >>]],
       [id |-> "m4",
        subject |-> [wsr |-> TRUE, project |-> Str("Cygnus")],
        hasAttachments |-> FALSE,
        body |-> [blocks |-> << [project |-> Str("Cygnus"), resource |-> None,
                                 raw_date |-> <<"%d %B %Y", 1, 4, 2025>>,
                                 dates |-> <<>>, line2 |-> None] >>,
                  range |-> << <<"%d %b %Y", 31, 3, 2025>>, <<"%d %b %Y", 4, 4, 2025>> >>]] >>

-----------------------------------------------------------------------------
(* Storage: the processed-id document and the ledger files *)

MaxFailures == 1

\* the calls a scan and a commit make to the mailbox and to storage
ScanCalls == {"list_processed", "download_processed", "create_processed", "get_inbox"}

CommitCalls ==
    {"list_processed", "download_processed", "create_processed",
     "list_ledger", "probe_ledger", "metadata_ledger", "create_ledger",
     "download_ledger", "upload_ledger", "save_processed"}

\* the sets of calls that fail in one run of a handler
Failures(calls) == {F \in SUBSET calls : Cardinality(F) <= MaxFailures}

\* a variant that writes the empty list over a document it cannot read
find_or_create_processed_json_Rewriting(proc, F) ==
    IF "list_processed" \in F THEN [raised |-> TRUE, file |-> proc, ids |-> {}]
    ELSE IF proc.exists /\ "download_processed" \notin F
         THEN [raised |-> FALSE, file |-> proc, ids |-> proc.ids]
    ELSE IF "create_processed" \in F THEN [raised |-> TRUE, file |-> proc, ids |-> {}]
    ELSE [raised |-> FALSE, file |-> [exists |-> TRUE, ids |-> {}], ids |-> {}]

\* a variant that raises when the document cannot be read
find_or_create_processed_json_Raising(proc, F) ==
    IF "list_processed" \in F THEN [raised |-> TRUE, file |-> proc, ids |-> {}]
    ELSE IF proc.exists
         THEN [raised |-> "download_processed" \in F, file |-> proc,
               ids |-> IF "download_processed" \in F THEN {} ELSE proc.ids]
    ELSE IF "create_processed" \in F THEN [raised |-> TRUE, file |-> proc, ids |-> {}]
    ELSE [raised |-> FALSE, file |-> [exists |-> TRUE, ids |-> {}], ids |-> {}]

\* returns (fid, obj): `raised` when the listing or the creation fails; a
\* failed download or parse gives the empty list
find_or_create_processed_json(proc, F) ==
    IF "list_processed" \in F THEN [raised |-> TRUE, file |-> proc, ids |-> {}]
    ELSE IF proc.exists
         THEN [raised |-> FALSE, file |-> proc,
               ids |-> IF "download_processed" \in F THEN {} ELSE proc.ids]
    ELSE IF "create_processed" \in F THEN [raised |-> TRUE, file |-> proc, ids |-> {}]
    ELSE [raised |-> FALSE, file |-> [exists |-> TRUE, ids |-> {}], ids |-> {}]

\* the optional template file of the deployment is absent
read_local_template_bytes == None

\* returns (item_id, webUrl): fid is FALSE when the call raises (the handler
\* then has fid = None); `file` is the ledger file in storage afterwards
ensure_onedrive_file(file, minimal_fn, F) ==
    IF "list_ledger" \in F THEN [fid |-> FALSE, file |-> file, recreated |-> FALSE]
    ELSE IF file.exists /\ "probe_ledger" \notin F /\ "metadata_ledger" \notin F
         THEN [fid |-> TRUE, file |-> file, recreated |-> FALSE]
    ELSE IF "create_ledger" \in F THEN [fid |-> FALSE, file |-> file, recreated |-> FALSE]
    ELSE [fid |-> TRUE,
          file |-> StoredFile(IF read_local_template_bytes # None
                              THEN read_local_template_bytes ELSE minimal_fn),
          recreated |-> TRUE]

\* a variant that takes a row whether or not its message is processed
DsrRowValidProcessed(row, processed_ids) ==
    /\ Truthy(row.project)
    /\ Truthy(row.resource)
    /\ parse_date_string(row.date) # NoDate

\* the rows of the edited preview that become records
DsrRowValid(row, processed_ids) ==
    /\ row.message_id \notin processed_ids
    /\ Truthy(row.project)
    /\ Truthy(row.resource)
    /\ parse_date_string(row.date) # NoDate

\* a variant that stops at the first row it cannot take
BuildDsrRecordsUntilSkip(rows, processed_ids) ==
    LET n == Cardinality({i \in 1..Len(rows) :
                             \A j \in 1..i : DsrRowValid(rows[j], processed_ids)})
    IN  [i \in 1..n |->
            [project |-> rows[i].project, resource |-> rows[i].resource,
             date |-> parse_date_string(rows[i].date),
             message_id |-> rows[i].message_id]]

\* dsr_records: a record of every row the handler does not skip
BuildDsrRecords(rows, processed_ids) ==
    LET kept == SelectSeq(rows, LAMBDA row : DsrRowValid(row, processed_ids))
    IN  [i \in 1..Len(kept) |->
            [project |-> kept[i].project, resource |-> kept[i].resource,
             date |-> parse_date_string(kept[i].date),
             message_id |-> kept[i].message_id]]

\* a variant that takes a row whatever its attachment box says
WsrRowValidUnattached(row, processed_ids) ==
    /\ row.message_id \notin processed_ids
    /\ Truthy(row.project)
    /\ parse_date_string(row.start_date) # NoDate
    /\ parse_date_string(row.end_date) # NoDate

\* a weekly row becomes a record: not processed, with project, start, end
\* and attachment
WsrRowValid(row, processed_ids) ==
    /\ row.message_id \notin processed_ids
    /\ Truthy(row.project)
    /\ parse_date_string(row.start_date) # NoDate
    /\ parse_date_string(row.end_date) # NoDate
    /\ row.hasAttachment

BuildWsrRecords(rows, processed_ids) ==
    LET kept == SelectSeq(rows, LAMBDA row : WsrRowValid(row, processed_ids))
    IN  [i \in 1..Len(kept) |->
            [project |-> kept[i].project,
             date |-> parse_date_string(kept[i].start_date),
             message_id |-> kept[i].message_id]]

MessageIds(records) == {records[i].message_id : i \in 1..Len(records)}

-----------------------------------------------------------------------------
(* The handlers of the four buttons *)

CommitOp(kind, F, records, ens) ==
    [NoOp EXCEPT !.kind = kind, !.fails = F, !.records = records,
                 !.recreated = ens.recreated]

\* a variant that saves the ids whether or not the upload succeeded
ProcessedAfterMergeAlways(uploaded, loaded, records, F) ==
    IF "save_processed" \in F THEN loaded.file
    ELSE [exists |-> TRUE, ids |-> loaded.ids \cup MessageIds(records)]

\* the processed-id document after the merge: with the upload done, the ids
\* read at the start and those of the records are saved
ProcessedAfterMerge(uploaded, loaded, records, F) ==
    IF uploaded /\ "save_processed" \notin F
    THEN [exists |-> TRUE, ids |-> loaded.ids \cup MessageIds(records)]
    ELSE loaded.file

\* the merge is done: upload, then mark the message ids processed
CommitMerged(kind, ens, loaded, records, res, F) ==
    LET uploaded == "upload_ledger" \notin F
    IN  [ledger |-> IF uploaded THEN StoredFile(res.bytes) ELSE ens.file,
         proc |-> ProcessedAfterMerge(uploaded, loaded, records, F),
         op |-> [CommitOp(kind, F, records, ens) EXCEPT
                    !.merged = TRUE, !.processed = res.processed,
                    !.duplicates = res.duplicates, !.at = res.at,
                    !.uploaded = uploaded]]

\* the merge of the handler: update_dsr_wb_bytes or update_wsr_wb_bytes
UpdateBytes(kind, wb, records) ==
    IF kind = "commit_dsr" THEN update_dsr_wb_bytes(wb, records)
                           ELSE update_wsr_wb_bytes(wb, records)

\* the records of the handler, built from the rows of its preview
BuildRecords(kind, rows, processed_ids) ==
    IF kind = "commit_dsr" THEN BuildDsrRecords(rows, processed_ids)
                           ELSE BuildWsrRecords(rows, processed_ids)

\* the ledger file is ensured: download it, load it, merge
CommitEnsured(kind, ens, loaded, records, F) ==
    IF ~ens.fid \/ "download_ledger" \in F
    THEN [ledger |-> ens.file, proc |-> loaded.file,
          op |-> CommitOp(kind, F, records, ens)]
    ELSE CommitMerged(kind, ens, loaded, records,
                      UpdateBytes(kind, load_workbook(ens.file.wb), records), F)

\* the records are built: nothing to do without records
CommitRecords(kind, ledger, loaded, records, minimal_fn, F) ==
    IF records = <<>>
    THEN [ledger |-> ledger, proc |-> loaded.file,
          op |-> [NoOp EXCEPT !.kind = kind, !.fails = F]]
    ELSE CommitEnsured(kind, ensure_onedrive_file(ledger, minimal_fn, F),
                       loaded, records, F)

\* "Confirm & Update": an exception of find_or_create_processed_json ends
\* the run
Commit(kind, ledger, proc, rows, minimal_fn, F) ==
    LET loaded == find_or_create_processed_json(proc, F)
    IN  IF loaded.raised
        THEN [ledger |-> ledger, proc |-> proc,
              op |-> [NoOp EXCEPT !.kind = kind, !.fails = F]]
        ELSE CommitRecords(kind, ledger, loaded, BuildRecords(kind, rows, loaded.ids),
                           minimal_fn, F)

\* "Scan Inbox": the processed ids (none when loading them fails), the
\* inbox, the preview; an empty preview leaves the shown one in place
Scanned(df, preview, F) ==
    IF "get_inbox" \in F \/ preview = <<>> THEN df
    ELSE [shown |-> TRUE, rows |-> preview]

\* what a commit leaves in storage
DsrCommitted(out) ==
    /\ dsrFile' = out.ledger
    /\ procFile' = out.proc
    /\ lastOp' = out.op

WsrCommitted(out) ==
    /\ wsrFile' = out.ledger
    /\ procFile' = out.proc
    /\ lastOp' = out.op

Init ==
    /\ dsrFile = AbsentFile
    /\ wsrFile = AbsentFile
    /\ procFile = [exists |-> FALSE, ids |-> {}]
    /\ dfDsr = NoPreview
    /\ dfWsr = NoPreview
    /\ lastOp = NoOp

ScanDsrOf(inbox, F) ==
    LET loaded == find_or_create_processed_json(procFile, F)
        parsed == parse_inbox_messages_for_preview(inbox, loaded.ids)
    IN  /\ procFile' = loaded.file
        /\ dfDsr' = Scanned(dfDsr, DsrFrame(parsed.dsr), F)
        /\ lastOp' = [NoOp EXCEPT !.kind = "scan_dsr", !.fails = F, !.records = inbox]
        /\ UNCHANGED <<dsrFile, wsrFile, dfWsr>>

ScanDsr ==
    /\ lastOp = NoOp
    /\ \E F \in Failures(ScanCalls) : ScanDsrOf(Inbox, F)

CommitDsr ==
    /\ lastOp = NoOp
    /\ dfDsr.shown
    /\ \E F \in Failures(CommitCalls) :
          DsrCommitted(Commit("commit_dsr", dsrFile, procFile, dfDsr.rows,
                              make_minimal_dsr_bytes, F))
    /\ UNCHANGED <<wsrFile, dfDsr, dfWsr>>

ScanWsrOf(inbox, F) ==
    LET loaded == find_or_create_processed_json(procFile, F)
        parsed == parse_inbox_messages_for_preview(inbox, loaded.ids)
    IN  /\ procFile' = loaded.file
        /\ dfWsr' = Scanned(dfWsr, WsrFrame(parsed.wsr), F)
        /\ lastOp' = [NoOp EXCEPT !.kind = "scan_wsr", !.fails = F, !.records = inbox]
        /\ UNCHANGED <<dsrFile, wsrFile, dfDsr>>

ScanWsr ==
    /\ lastOp = NoOp
    /\ \E F \in Failures(ScanCalls) : ScanWsrOf(Inbox, F)

CommitWsr ==
    /\ lastOp = NoOp
    /\ dfWsr.shown
    /\ \E F \in Failures(CommitCalls) :
          WsrCommitted(Commit("commit_wsr", wsrFile, procFile, dfWsr.rows,
                              make_minimal_wsr_bytes, F))
    /\ UNCHANGED <<dsrFile, dfDsr, dfWsr>>

\* st.data_editor with num_rows="dynamic": the user deletes a row of the
\* preview
DeleteRow(rows, i) == [j \in 1..(Len(rows) - 1) |-> IF j < i THEN rows[j] ELSE rows[j + 1]]

EditDsr ==
    /\ lastOp = NoOp
    /\ dfDsr.shown
    /\ \E i \in 1..Len(dfDsr.rows) :
          dfDsr' = [dfDsr EXCEPT !.rows = DeleteRow(@, i)]
    /\ UNCHANGED <<dsrFile, wsrFile, procFile, dfWsr, lastOp>>

EditWsr ==
    /\ lastOp = NoOp
    /\ dfWsr.shown
    /\ \E i \in 1..Len(dfWsr.rows) :
          dfWsr' = [dfWsr EXCEPT !.rows = DeleteRow(@, i)]
    /\ UNCHANGED <<dsrFile, wsrFile, procFile, dfDsr, lastOp>>

Next == ScanDsr \/ EditDsr \/ CommitDsr \/ ScanWsr \/ EditWsr \/ CommitWsr \/ Return

Spec == Init /\ [][Next]_vars

-----------------------------------------------------------------------------
(* Ingestion: any inbox, scanned, edited in the preview and confirmed, while
   the mailbox and storage answer every call *)

MaxMessages == 1

\* blocks of a body: complete; dated and named only by its later lines;
\* without any date; without "Resource Name"; without a project
BlkNamed ==
    [project |-> Str("Apollo"), resource |-> Str("Asha"),
     raw_date |-> <<"%d %B %Y", 3, 3, 2025>>, dates |-> <<>>, line2 |-> Str("Apollo")]

BlkSecondLine ==
    [project |-> None, resource |-> Str("Ravi"), raw_date |-> Str("shortly"),
     dates |-> <<Str("n/a"), <<"%d %b %Y", 31, 3, 2025>>, <<"%d %b %Y", 1, 4, 2025>> >>,
     line2 |-> Str("Apollo")]

BlkNoDate ==
    [project |-> Str("Apollo"), resource |-> Str("Asha"), raw_date |-> None,
     dates |-> <<Str("n/a")>>, line2 |-> Str("Apollo")]

BlkNoResource ==
    [project |-> Str("Apollo"), resource |-> None,
     raw_date |-> <<"%d %B %Y", 3, 3, 2025>>, dates |-> <<>>, line2 |-> Str("Apollo")]

BlkNoProject ==
    [project |-> None, resource |-> Str("Asha"),
     raw_date |-> <<"%d %B %Y", 3, 3, 2025>>, dates |-> <<>>, line2 |-> None]

BlockLists ==
    { <<BlkNamed>>, <<BlkNoDate, BlkNoResource, BlkSecondLine>>, <<BlkNoResource, BlkNamed>>,
      <<BlkNamed, BlkNoProject, BlkSecondLine>> }

\* the range a body states: in order, reversed, with one end that is no date
Ranges ==
    { << <<"%d %b %Y", 31, 3, 2025>>, <<"%d %b %Y", 4, 4, 2025>> >>,
      << <<"%d %b %Y", 4, 4, 2025>>, <<"%d %b %Y", 31, 3, 2025>> >>,
      << Str("next week"), <<"%d %b %Y", 4, 4, 2025>> >> }

DailyMail ==
    [subject : {[wsr |-> FALSE, project |-> None]}, hasAttachments : {FALSE},
     body : [blocks : BlockLists, range : {None}]]

WeeklyMail ==
    [subject : {[wsr |-> TRUE, project |-> Str("Atlas")]}, hasAttachments : BOOLEAN,
     body : [blocks : {<<>>}, range : Ranges \cup {None}]]
    \cup
    [subject : {[wsr |-> TRUE, project |-> None],
                [wsr |-> FALSE, project |-> Str("Atlas")]},
     hasAttachments : {TRUE},
     body : [blocks : {<<>>}, range : {CHOOSE r \in Ranges : r[1][1] # "str" /\ r[1][2] = 31}]]

MessageNames == {"m1", "m2"}

Messages ==
    {[id |-> id, subject |-> mail.subject, hasAttachments |-> mail.hasAttachments,
      body |-> mail.body] : id \in MessageNames, mail \in DailyMail \cup WeeklyMail}

\* the inboxes the listing can return: message ids are unique
Inboxes ==
    {inbox \in UNION {[1..n -> Messages] : n \in 1..MaxMessages} :
        \A i, j \in 1..Len(inbox) : i # j => inbox[i].id # inbox[j].id}

MaxCleared == 1

\* the user clears a cell of a complete row of the preview, or unticks its
\* attachment box
DsrCells == {"project", "resource", "date"}

WsrCells == {"project", "start_date", "end_date", "hasAttachment"}

DsrRowComplete(row) == \A f \in DsrCells : row[f] # None

WsrRowComplete(row) ==
    /\ \A f \in WsrCells \ {"hasAttachment"} : row[f] # None
    /\ row.hasAttachment

ClearCell(row, f) == [row EXCEPT ![f] = IF f = "hasAttachment" THEN FALSE ELSE None]

\* the rows of a preview the user has edited so far
DsrCleared(rows) == Cardinality({i \in 1..Len(rows) : ~DsrRowComplete(rows[i])})

WsrCleared(rows) == Cardinality({i \in 1..Len(rows) : ~WsrRowComplete(rows[i])})

IngestDsr ==
    /\ lastOp = NoOp
    /\ ~dfDsr.shown
    /\ \E inbox \in Inboxes : ScanDsrOf(inbox, {})

IngestWsr ==
    /\ lastOp = NoOp
    /\ ~dfWsr.shown
    /\ \E inbox \in Inboxes : ScanWsrOf(inbox, {})

ClearDsr ==
    /\ lastOp = NoOp
    /\ dfDsr.shown
    /\ DsrCleared(dfDsr.rows) < MaxCleared
    /\ \E i \in 1..Len(dfDsr.rows), f \in DsrCells :
          /\ DsrRowComplete(dfDsr.rows[i])
          /\ dfDsr' = [dfDsr EXCEPT !.rows[i] = ClearCell(@, f)]
    /\ UNCHANGED <<dsrFile, wsrFile, procFile, dfWsr, lastOp>>

ClearWsr ==
    /\ lastOp = NoOp
    /\ dfWsr.shown
    /\ WsrCleared(dfWsr.rows) < MaxCleared
    /\ \E i \in 1..Len(dfWsr.rows), f \in WsrCells :
          /\ WsrRowComplete(dfWsr.rows[i])
          /\ dfWsr' = [dfWsr EXCEPT !.rows[i] = ClearCell(@, f)]
    /\ UNCHANGED <<dsrFile, wsrFile, procFile, dfDsr, lastOp>>

ConfirmDsr ==
    /\ lastOp = NoOp
    /\ dfDsr.shown
    /\ DsrCommitted(Commit("commit_dsr", dsrFile, procFile, dfDsr.rows,
                           make_minimal_dsr_bytes, {}))
    /\ UNCHANGED <<wsrFile, dfDsr, dfWsr>>

ConfirmWsr ==
    /\ lastOp = NoOp
    /\ dfWsr.shown
    /\ WsrCommitted(Commit("commit_wsr", wsrFile, procFile, dfWsr.rows,
                           make_minimal_wsr_bytes, {}))
    /\ UNCHANGED <<dsrFile, dfDsr, dfWsr>>

NextIngest ==
    IngestDsr \/ ClearDsr \/ ConfirmDsr \/ IngestWsr \/ ClearWsr \/ ConfirmWsr \/ Return

SpecIngest == Init /\ [][NextIngest]_vars

-----------------------------------------------------------------------------
(* Date resolution: parse_date_string applied to one string *)

ParseDays == {1, 4, 13, 29, 31}

ParseMonths == {2, 3, 4, 12}

ParseYears == {2024, 2025}

\* the strings handed to parse_date_string: nothing, the empty string, free
\* text, and dates written with a month name, as ISO, and as "a/b/y"
DateStrings ==
    {None, Str(""), Str("n/a"), Str("next week")}
    \cup {<<f, d, m, y>> : f \in {"%d %B %Y", "%d %b %Y"},
                           d \in ParseDays, m \in ParseMonths, y \in ParseYears}
    \cup {<<"iso", y, m, d>> : d \in ParseDays, m \in ParseMonths \cup {13}, y \in ParseYears}
    \cup {<<"%d/%m/%Y", a, b, y>> : a \in ParseDays, b \in ParseDays \cup ParseMonths,
                                    y \in ParseYears}

ParseDate ==
    /\ lastOp = NoOp
    /\ \E s \in DateStrings :
          lastOp' = [NoOp EXCEPT !.kind = "parse", !.records = <<s>>,
                                 !.at = <<parse_date_string(s)>>]
    /\ UNCHANGED <<dsrFile, wsrFile, procFile, dfDsr, dfWsr>>

NextParse == ParseDate \/ Return

SpecParse == Init /\ [][NextParse]_vars

-----------------------------------------------------------------------------
(* What the claims speak of *)

IsMerge(op) == op.kind \in {"daily", "weekly"}

\* the workbook the last merge returned
ResultWb == IF lastOp.kind = "daily" THEN dsrFile.wb ELSE wsrFile.wb

\* the month sheets of a workbook
MonthSheets(wb) == {n \in DOMAIN wb.sheets : n[1] = "%B %Y"}

Monday(d) == AddDays(d, 0 - Weekday(d))

\* the ledger cell a record stands for
DailyKey(rec) == <<rec.project, rec.resource, rec.date>>

WeeklyKey(rec) == <<rec.project, month_sheet_name(rec.date), Monday(rec.date)>>

DistinctDaily(batch) ==
    \A i, j \in 1..Len(batch) : i # j => DailyKey(batch[i]) # DailyKey(batch[j])

DistinctWeekly(batch) ==
    \A i, j \in 1..Len(batch) : i # j => WeeklyKey(batch[i]) # WeeklyKey(batch[j])

\* the record's cell holds the marker in the workbook
DailyMarked(wb, rec) ==
    /\ HasSheet(wb, month_sheet_name(rec.date))
    /\ LET ws == wb.sheets[month_sheet_name(rec.date)]
       IN  \E r \in 3..MaxRow(ws), c \in 3..MaxColumn(ws) :
              /\ Value(ws, r, 1) = rec.project
              /\ Value(ws, r, 2) = rec.resource
              /\ Value(ws, 1, c) = FormatDayLabel(rec.date)
              /\ Value(ws, r, c) = Y

WeeklyMarked(wb, rec) ==
    /\ HasSheet(wb, month_sheet_name(rec.date))
    /\ LET ws == wb.sheets[month_sheet_name(rec.date)]
       IN  \E r \in 2..MaxRow(ws), c \in 2..MaxColumn(ws) :
              /\ Value(ws, r, 1) = rec.project
              /\ Value(ws, 1, c) = FormatWeekLabel(Monday(rec.date),
                                                   AddDays(Monday(rec.date), 4))
              /\ Value(ws, r, c) = Y

\* the span a week header states, read off its text
HeaderSpanHolds(header, d) ==
    /\ header # None
    /\ header[1] = "%d %b %Y - %d %b %Y"
    /\ ToOrdinal(Date(header[4], header[3], header[2])) <= ToOrdinal(d)
    /\ ToOrdinal(d) <= ToOrdinal(Date(header[7], header[6], header[5]))

\* every date of the span a week header states
HeaderSpanDates(header) ==
    IF header # None /\ header[1] = "%d %b %Y - %d %b %Y"
    THEN {FromOrdinal(n) : n \in ToOrdinal(Date(header[4], header[3], header[2]))
                                 ..ToOrdinal(Date(header[7], header[6], header[5]))}
    ELSE {}

-----------------------------------------------------------------------------
(* C1 *)

C1_Unmarked ==
    /\ lastOp'.kind = "daily" =>
          \A i \in 1..Len(lastOp'.records) : ~DailyMarked(dsrFile.wb, lastOp'.records[i])
    /\ lastOp'.kind = "weekly" =>
          \A i \in 1..Len(lastOp'.records) : ~WeeklyMarked(wsrFile.wb, lastOp'.records[i])

\* C1 as stated, for the first pass: a merge of a non-empty batch of N
\* records, none of them in the ledger yet, returns appliedCount = N and
\* duplicateCount = 0.
C1_FirstPassAppliesAll ==
    [][(IsMerge(lastOp') /\ C1_Unmarked)
          => (lastOp'.processed = Len(lastOp'.records) /\ lastOp'.duplicates = 0)]_vars

C1_FirstPass ==
    /\ (lastOp'.kind = "daily" /\ DistinctDaily(lastOp'.records)
          /\ \A i \in 1..Len(lastOp'.records) :
                ~DailyMarked(dsrFile.wb, lastOp'.records[i]))
        => (lastOp'.processed = Len(lastOp'.records) /\ lastOp'.duplicates = 0)
    /\ (lastOp'.kind = "weekly" /\ DistinctWeekly(lastOp'.records)
          /\ \A i \in 1..Len(lastOp'.records) :
                ~WeeklyMarked(wsrFile.wb, lastOp'.records[i]))
        => (lastOp'.processed = Len(lastOp'.records) /\ lastOp'.duplicates = 0)

C1_SecondPassOf(again) ==
    /\ again.processed = 0
    /\ again.duplicates = Len(lastOp.records)
    /\ again.bytes = ResultWb

C1_SecondPass ==
    /\ lastOp.kind = "daily" =>
          C1_SecondPassOf(update_dsr_wb_bytes(load_workbook(dsrFile.wb), lastOp.records))
    /\ lastOp.kind = "weekly" =>
          C1_SecondPassOf(update_wsr_wb_bytes(load_workbook(wsrFile.wb), lastOp.records))

\* C1, amended: a daily or weekly merge of a non-empty batch of N records
\* whose ledger cells are pairwise distinct and none of which holds the marker
\* in the ledger returns appliedCount = N, duplicateCount = 0; and for every
\* non-empty batch, applying it again to the ledger the merge returned gives
\* appliedCount = 0, duplicateCount = N and the same workbook, cell for cell.
C1_Idempotence == []C1_SecondPass /\ [][C1_FirstPass]_vars

\* a first pass of two records that applied both
C1_Witness ==
    /\ IsMerge(lastOp)
    /\ Len(lastOp.records) = 2
    /\ lastOp.processed = 2
    /\ lastOp.duplicates = 0

-----------------------------------------------------------------------------
(* C2, C3, C4 *)

IsCommit(op) == op.kind \in {"commit_dsr", "commit_wsr"}

\* a read of the ledger file fails in the operation: the download inside
\* ensure_onedrive_file or the download before load_workbook
LedgerReadFailed(op) == op.fails \cap {"probe_ledger", "download_ledger"} # {}

\* C2: in a commit in which a read of the existing ledger file fails, the
\* ledger file in storage is not written: it is after the commit what it was
\* before.
C2_FailedReadWritesNothing ==
    [][/\ (lastOp'.kind = "commit_dsr" /\ dsrFile.exists /\ LedgerReadFailed(lastOp'))
             => dsrFile' = dsrFile
       /\ (lastOp'.kind = "commit_wsr" /\ wsrFile.exists /\ LedgerReadFailed(lastOp'))
             => wsrFile' = wsrFile]_vars

\* a commit created the daily ledger file anew and merged into it, and the
\* marker of message m1, which an earlier commit wrote before it saved the
\* id, is not in the ledger any more
C2_MarkerLost ==
    /\ lastOp.kind = "commit_dsr"
    /\ lastOp.recreated
    /\ lastOp.uploaded
    /\ LedgerReadFailed(lastOp)
    /\ "m1" \in procFile.ids
    /\ \E i \in 1..Len(DsrRowsOf(Inbox[1])) : ~DailyMarked(dsrFile.wb, DsrRowsOf(Inbox[1])[i])

\* C3: a message id enters the processed-id document only in a commit whose
\* upload of the ledger succeeded, and is the id of a record of that commit;
\* a scan adds no id, and neither does a commit whose upload fails.
C3_IdsOnlyAfterUpload ==
    [][/\ (procFile'.ids \ procFile.ids) # {}
             => /\ IsCommit(lastOp')
                /\ lastOp'.uploaded
                /\ (procFile'.ids \ procFile.ids) \subseteq MessageIds(lastOp'.records)
       /\ (IsCommit(lastOp') /\ ~lastOp'.uploaded) => procFile'.ids \subseteq procFile.ids
       /\ lastOp'.kind \in {"scan_dsr", "scan_wsr"} => procFile'.ids \subseteq procFile.ids]_vars

\* a commit uploaded the ledger and the ids of its records are in the
\* processed-id document
C3_Witness ==
    /\ IsCommit(lastOp)
    /\ lastOp.uploaded
    /\ lastOp.records # <<>>
    /\ MessageIds(lastOp.records) \subseteq procFile.ids

\* the cell of every record holds the marker in the workbook
AllMarked(kind, wb, records) ==
    \A i \in 1..Len(records) :
        IF kind = "commit_dsr" THEN DailyMarked(wb, records[i])
                               ELSE WeeklyMarked(wb, records[i])

\* C4: records whose markers an earlier commit wrote to the ledger, and
\* whose message ids are not in the processed-id document (its write failed),
\* are merged again by a later commit: each is counted in duplicateCount,
\* none in appliedCount, and the ledger is after the upload what it was.
C4_RecommitOnlyDuplicates ==
    [][/\ (lastOp'.kind = "commit_dsr" /\ lastOp'.merged
              /\ AllMarked("commit_dsr", dsrFile.wb, lastOp'.records))
             => /\ lastOp'.duplicates = Len(lastOp'.records)
                /\ lastOp'.processed = 0
                /\ dsrFile' = dsrFile
       /\ (lastOp'.kind = "commit_wsr" /\ lastOp'.merged
              /\ AllMarked("commit_wsr", wsrFile.wb, lastOp'.records))
             => /\ lastOp'.duplicates = Len(lastOp'.records)
                /\ lastOp'.processed = 0
                /\ wsrFile' = wsrFile]_vars

\* C4 where the commit finds the ledger file as the earlier commit left it
C4_RecommitOfIntactLedger ==
    [][(IsCommit(lastOp') /\ lastOp'.merged /\ ~lastOp'.recreated
           /\ AllMarked(lastOp'.kind,
                        IF lastOp'.kind = "commit_dsr" THEN dsrFile.wb ELSE wsrFile.wb,
                        lastOp'.records))
          => /\ lastOp'.duplicates = Len(lastOp'.records)
             /\ lastOp'.processed = 0
             /\ dsrFile' = dsrFile
             /\ wsrFile' = wsrFile]_vars

\* a commit merged records that were all marked in the ledger, their ids
\* being absent from the processed-id document
C4_Witness ==
    /\ IsCommit(lastOp)
    /\ lastOp.merged
    /\ lastOp.duplicates = Len(lastOp.records)
    /\ ~lastOp.recreated
    /\ MessageIds(lastOp.records) \cap procFile.ids = {}

-----------------------------------------------------------------------------
(* C5, C6 *)

\* no value stands in two columns of row 1
HeadersUnique(ws) ==
    \A c1, c2 \in 1..MaxColumn(ws) :
        (c1 # c2 /\ Value(ws, 1, c1) # None) => Value(ws, 1, c1) # Value(ws, 1, c2)

\* C5: after any sequence of daily merges from the empty ledger, in every
\* month sheet each (project, resource) pair is the key of at most one data
\* row (rows 3..) and each date label heads at most one column.
C5_DailyRowsAndColumnsUnique ==
    \A n \in MonthSheets(dsrFile.wb) :
        LET ws == dsrFile.wb.sheets[n]
        IN  /\ \A r1, r2 \in 3..MaxRow(ws) :
                  (r1 # r2 /\ Value(ws, r1, 1) # None)
                      => <<Value(ws, r1, 1), Value(ws, r1, 2)>>
                            # <<Value(ws, r2, 1), Value(ws, r2, 2)>>
            /\ HeadersUnique(ws)

\* a month sheet with two data rows, one of them marked on two dates: a pair's
\* row was found again, and a second pair got its own row
C5_Witness ==
    \E n \in MonthSheets(dsrFile.wb) :
        LET ws == dsrFile.wb.sheets[n]
        IN  /\ Value(ws, 3, 1) # None
            /\ Value(ws, 4, 1) # None
            /\ \E c1, c2 \in 3..MaxColumn(ws) :
                  c1 # c2 /\ Value(ws, 3, c1) = Y /\ Value(ws, 3, c2) = Y

\* C6: after any sequence of weekly merges from the empty ledger, in every
\* month sheet each project is the key of at most one data row (rows 2..) and
\* each week span label heads at most one column.
C6_WeeklyRowsAndColumnsUnique ==
    \A n \in MonthSheets(wsrFile.wb) :
        LET ws == wsrFile.wb.sheets[n]
        IN  /\ \A r1, r2 \in 2..MaxRow(ws) :
                  (r1 # r2 /\ Value(ws, r1, 1) # None)
                      => Value(ws, r1, 1) # Value(ws, r2, 1)
            /\ HeadersUnique(ws)

\* a month sheet with two project rows, the first marked in two weeks
C6_Witness ==
    \E n \in MonthSheets(wsrFile.wb) :
        LET ws == wsrFile.wb.sheets[n]
        IN  /\ Value(ws, 2, 1) # None
            /\ Value(ws, 3, 1) # None
            /\ \E c1, c2 \in 2..MaxColumn(ws) :
                  c1 # c2 /\ Value(ws, 2, c1) = Y /\ Value(ws, 2, c2) = Y

-----------------------------------------------------------------------------
(* C7 *)

\* every cell of wb that holds the marker holds it in wb2
MarkersKept(wb, wb2) ==
    \A n \in DOMAIN wb.sheets :
        \A p \in DOMAIN wb.sheets[n] :
            wb.sheets[n][p].value = Y
                => /\ n \in DOMAIN wb2.sheets
                   /\ Value(wb2.sheets[n], p[1], p[2]) = Y

\* a record that landed on a cell which held the marker is a duplicate, the
\* duplicates are counted, and the cell holds the marker afterwards
RepeatsCounted(wb, wb2, op) ==
    /\ \A i \in 1..Len(op.at) :
          LET a == op.at[i]
          IN  /\ (a.sheet \in DOMAIN wb.sheets /\ Value(wb.sheets[a.sheet], a.row, a.col) = Y)
                    => a.dup
              /\ Value(wb2.sheets[a.sheet], a.row, a.col) = Y
    /\ op.duplicates = Cardinality({i \in 1..Len(op.at) : op.at[i].dup})

\* C7: a cell that holds the presence marker "Y" holds it after every daily
\* or weekly merge, for any batch; a record whose cell holds the marker is
\* counted in duplicateCount and the cell is left as it is.
C7_MarkerNeverCleared ==
    [][/\ MarkersKept(dsrFile.wb, dsrFile'.wb)
       /\ MarkersKept(wsrFile.wb, wsrFile'.wb)
       /\ lastOp'.kind = "daily" => RepeatsCounted(dsrFile.wb, dsrFile'.wb, lastOp')
       /\ lastOp'.kind = "weekly" => RepeatsCounted(wsrFile.wb, wsrFile'.wb, lastOp')]_vars

\* a merge counted a duplicate and its cell holds the marker
C7_Witness ==
    /\ IsMerge(lastOp)
    /\ \E i \in 1..Len(lastOp.at) :
          /\ lastOp.at[i].dup
          /\ Value(ResultWb.sheets[lastOp.at[i].sheet],
                   lastOp.at[i].row, lastOp.at[i].col) = Y

-----------------------------------------------------------------------------
(* C8 *)

\* every header of every sheet of wb stands in the same column in wb2
HeadersStay(wb, wb2) ==
    \A n \in DOMAIN wb.sheets :
        /\ n \in DOMAIN wb2.sheets
        /\ \A c \in 1..MaxColumn(wb.sheets[n]) :
              Value(wb.sheets[n], 1, c) # None
                  => Value(wb2.sheets[n], 1, c) = Value(wb.sheets[n], 1, c)

\* C8: across the merges of a ledger, daily or weekly, a header label placed
\* at column index k of a sheet stays at index k: new columns come after the
\* existing ones, and processing another date moves no column.
C8_ColumnStability ==
    [][HeadersStay(dsrFile.wb, dsrFile'.wb) /\ HeadersStay(wsrFile.wb, wsrFile'.wb)]_vars

\* a merge of one record marked a fresh cell of a sheet that holds a marker
\* in another column: the sheet's columns existed before this merge
C8_Witness ==
    /\ IsMerge(lastOp)
    /\ Len(lastOp.at) = 1
    /\ ~lastOp.at[1].dup
    /\ LET ws == ResultWb.sheets[lastOp.at[1].sheet]
       IN  \E p \in DOMAIN ws :
              p[1] >= 2 /\ p[2] >= 2 /\ p[2] # lastOp.at[1].col /\ ws[p].value = Y

-----------------------------------------------------------------------------
(* C9 *)

\* C9 as stated: a weekly record whose date lies inside the span of a week
\* column the ledger already has lands in that column.
C9_LandsInCreatedColumn ==
    [][(lastOp'.kind = "weekly" /\ Len(lastOp'.records) = 1) =>
          \A n \in MonthSheets(wsrFile.wb) :
              \A c \in 2..MaxColumn(wsrFile.wb.sheets[n]) :
                  HeaderSpanHolds(Value(wsrFile.wb.sheets[n], 1, c), lastOp'.records[1].date)
                      => (lastOp'.at[1].sheet = n /\ lastOp'.at[1].col = c)]_vars

\* C9, amended: in any month sheet of the weekly ledger, for any date D
\* inside the span of one of the sheet's week columns, also a date of another
\* month, find_week_column_for_date on that sheet returns that column; the
\* merge resolves a record only in the sheet of its date's own month, where it
\* lands in the column whose span holds the date, so a column of another
\* month's sheet whose span holds the date is not the one returned.
C9_SpanContainment ==
    /\ \A n \in MonthSheets(wsrFile.wb) :
          LET ws == wsrFile.wb.sheets[n]
          IN  \A c \in 2..MaxColumn(ws) :
                  \A d \in HeaderSpanDates(Value(ws, 1, c)) :
                      find_week_column_for_date(ws, d) = c
    /\ lastOp.kind = "weekly" =>
          \A i \in 1..Len(lastOp.at) :
              LET a  == lastOp.at[i]
                  ws == wsrFile.wb.sheets[a.sheet]
              IN  /\ a.sheet = month_sheet_name(lastOp.records[i].date)
                  /\ \A c \in 2..MaxColumn(ws) :
                        HeaderSpanHolds(Value(ws, 1, c), lastOp.records[i].date)
                            => a.col = c

\* a record landed in its month's sheet while the sheet of the month before
\* has a column whose span holds the record's date
C9_Witness ==
    /\ lastOp.kind = "weekly"
    /\ \E i \in 1..Len(lastOp.at) :
          \E n \in MonthSheets(wsrFile.wb) :
              /\ n # lastOp.at[i].sheet
              /\ \E c \in 2..MaxColumn(wsrFile.wb.sheets[n]) :
                    HeaderSpanHolds(Value(wsrFile.wb.sheets[n], 1, c),
                                    lastOp.records[i].date)
              /\ HeaderSpanHolds(Value(wsrFile.wb.sheets[lastOp.at[i].sheet], 1,
                                       lastOp.at[i].col),
                                 lastOp.records[i].date)

-----------------------------------------------------------------------------
(* C10 *)

\* the header of the column a record landed in
LandedHeader(i) ==
    Value(wsrFile.wb.sheets[lastOp.at[i].sheet], 1, lastOp.at[i].col)

\* C10 as stated: every weekly record with date D is marked in a column
\* whose header span [start, end] satisfies start <= D <= end.
C10_LandsInsideSpan ==
    lastOp.kind = "weekly" =>
        \A i \in 1..Len(lastOp.at) :
            HeaderSpanHolds(LandedHeader(i), lastOp.records[i].date)

\* C10, amended: every weekly record with date D is marked in the column
\* whose header span is the Monday-Friday of D's calendar week: start is the
\* Monday on or before D and end is start + 4 days. So start <= D <= end when
\* D is a Monday..Friday, and a Saturday or Sunday D is marked in the column
\* of the week that ended the Friday before it (end < D <= end + 2).
C10_LandsInOwnWeek ==
    lastOp.kind = "weekly" =>
        \A i \in 1..Len(lastOp.at) :
            LET d == lastOp.records[i].date
            IN  /\ LandedHeader(i) = FormatWeekLabel(Monday(d), AddDays(Monday(d), 4))
                /\ Value(wsrFile.wb.sheets[lastOp.at[i].sheet],
                         lastOp.at[i].row, lastOp.at[i].col) = Y
                /\ Weekday(d) <= 4 => HeaderSpanHolds(LandedHeader(i), d)
                /\ Weekday(d) >= 5 => ~HeaderSpanHolds(LandedHeader(i), d)

\* a record dated on a Saturday or Sunday was merged
C10_Witness ==
    /\ lastOp.kind = "weekly"
    /\ \E i \in 1..Len(lastOp.at) :
          /\ Weekday(lastOp.records[i].date) >= 5
          /\ ~lastOp.at[i].dup

-----------------------------------------------------------------------------
(* C11 *)

\* the first and the last day of the month a month sheet is named after
SheetFirst(n) == Date(n[3], n[2], 1)

SheetLast(n) == Date(n[3], n[2], DaysInMonth(n[3], n[2]))

\* the Monday a week header starts with, read off its text
HeaderMonday(header) == Date(header[4], header[3], header[2])

\* C11 as stated: in every weekly month sheet the Monday-Friday span of
\* each week column overlaps the sheet's calendar month.
C11_SpansOverlapMonth ==
    \A n \in MonthSheets(wsrFile.wb) :
        \A c \in 2..MaxColumn(wsrFile.wb.sheets[n]) :
            \E d \in HeaderSpanDates(Value(wsrFile.wb.sheets[n], 1, c)) :
                d.month = n[2] /\ d.year = n[3]

\* C11, amended: in every weekly month sheet, columns 2..N are labelled with
\* the Monday-Friday spans of the Monday-Sunday calendar weeks that overlap
\* the sheet's month, one column per such week and no other column: the
\* Monday is not after the month's last day and the Sunday is not before its
\* first day. When the month begins on a Saturday or Sunday, the first
\* column's Monday-Friday span lies entirely in the month before.
C11_ColumnsOfCalendarWeeks ==
    \A n \in MonthSheets(wsrFile.wb) :
        LET ws == wsrFile.wb.sheets[n]
            lo == ToOrdinal(SheetFirst(n))
            hi == ToOrdinal(SheetLast(n))
        IN  /\ \A c \in 2..MaxColumn(ws) :
                  LET header == Value(ws, 1, c)
                  IN  /\ header # None
                      /\ header[1] = "%d %b %Y - %d %b %Y"
                      /\ Weekday(HeaderMonday(header)) = 0
                      /\ header = FormatWeekLabel(HeaderMonday(header),
                                                  AddDays(HeaderMonday(header), 4))
                      /\ ToOrdinal(HeaderMonday(header)) <= hi
                      /\ ToOrdinal(HeaderMonday(header)) + 6 >= lo
            /\ \A o \in (lo - 6)..hi :
                  Weekday(FromOrdinal(o)) = 0
                      => \E c \in 2..MaxColumn(ws) :
                            Value(ws, 1, c) = FormatWeekLabel(FromOrdinal(o),
                                                              FromOrdinal(o + 4))
            /\ Weekday(SheetFirst(n)) >= 5
                  => \A d \in HeaderSpanDates(Value(ws, 1, 2)) : ToOrdinal(d) < lo

\* a merge marked a record in the sheet of a month that begins on a Saturday
\* or Sunday, whose first week column ends before the month begins
C11_Witness ==
    /\ lastOp.kind = "weekly"
    /\ \E i \in 1..Len(lastOp.at) :
          LET n == lastOp.at[i].sheet
          IN  /\ Weekday(SheetFirst(n)) >= 5
              /\ \A d \in HeaderSpanDates(Value(wsrFile.wb.sheets[n], 1, 2)) :
                    ToOrdinal(d) < ToOrdinal(SheetFirst(n))

-----------------------------------------------------------------------------
(* C12 *)

\* the batch in another order
Permuted(records, perm) == [i \in 1..Len(records) |-> records[perm[i]]]

\* the merge of the step's kind, on the ledger the step started from
MergeOf(kind, records) ==
    IF kind = "daily" THEN update_dsr_wb_bytes(load_workbook(dsrFile.wb), records)
                      ELSE update_wsr_wb_bytes(load_workbook(wsrFile.wb), records)

\* the orders of a batch
Orders(records) == {Permuted(records, perm) : perm \in Permutations(1..Len(records))}

\* a date's marker is in the same sheet and column in both merges
SameColumns(first, at, second, other) ==
    \A i \in 1..Len(first), j \in 1..Len(second) :
        first[i].date = second[j].date
            => /\ other[j].sheet = at[i].sheet
               /\ other[j].col = at[i].col

\* C12: for any batch merged into a ledger, daily or weekly, the marker of
\* a date is written in the same column of the same sheet whatever the order
\* of the batch: the merge of every permutation of the batch on the same
\* starting ledger lands each date where this merge landed it.
C12_ColumnOrderIndependent ==
    [][IsMerge(lastOp') =>
          \A batch \in Orders(lastOp'.records) :
              \A other \in {MergeOf(lastOp'.kind, batch).at} :
                  SameColumns(lastOp'.records, lastOp'.at, batch, other)]_vars

\* a merge of two records wrote two markers in two columns of one sheet
C12_Witness ==
    /\ IsMerge(lastOp)
    /\ Len(lastOp.at) = 2
    /\ lastOp.at[1].sheet = lastOp.at[2].sheet
    /\ lastOp.at[1].col > lastOp.at[2].col
    /\ ~lastOp.at[1].dup
    /\ ~lastOp.at[2].dup

-----------------------------------------------------------------------------
(* C13: the range of a weekly candidate *)

\* the preview a weekly scan has just built
IsWeeklyScan == lastOp.kind = "scan_wsr" /\ dfWsr.shown

\* the weekly rows of the preview that come from a message
WeeklyRowsOf(m) == {i \in 1..Len(dfWsr.rows) : dfWsr.rows[i].message_id = m.id}

\* both ends of the range of the body parse and the start is after the end
RangeReversed(m) ==
    /\ m.body.range # None
    /\ parse_date_string(m.body.range[1]) # NoDate
    /\ parse_date_string(m.body.range[2]) # NoDate
    /\ ~DateLE(parse_date_string(m.body.range[1]), parse_date_string(m.body.range[2]))

\* C13: every weekly candidate of a scan has its start date on or before its
\* end date, and a message whose range has its start after its end yields no
\* weekly candidate
C13_RangeOrdered ==
    IsWeeklyScan =>
        /\ \A i \in 1..Len(dfWsr.rows) :
              DateLE(parse_date_string(dfWsr.rows[i].start_date),
                     parse_date_string(dfWsr.rows[i].end_date))
        /\ \A k \in 1..Len(lastOp.records) :
              RangeReversed(lastOp.records[k]) => WeeklyRowsOf(lastOp.records[k]) = {}

\* a scan made a candidate of a message whose range is reversed
C13_Witness ==
    /\ IsWeeklyScan
    /\ \E k \in 1..Len(lastOp.records) :
          /\ RangeReversed(lastOp.records[k])
          /\ \E i \in WeeklyRowsOf(lastOp.records[k]) :
                ~DateLE(parse_date_string(dfWsr.rows[i].start_date),
                        parse_date_string(dfWsr.rows[i].end_date))

-----------------------------------------------------------------------------
(* C14: weekly reports without attachment *)

\* the record is the one the weekly handler builds of the row
WeeklyRecordOf(rec, row) ==
    /\ rec.message_id = row.message_id
    /\ rec.project = row.project
    /\ rec.date = parse_date_string(row.start_date)

\* a weekly subject over a project and a range that parse, without attachment
UnattachedWeekly(m) ==
    /\ is_valid_wsr_subject(m.subject)
    /\ ~m.hasAttachments
    /\ Truthy(extract_wsr_project(m.subject))
    /\ extract_wsr_date_range(m.body)[1] # NoDate

\* C14: a message with a weekly subject and no attachment gives no weekly
\* candidate in a scan, whatever its project and range; and a confirm makes a
\* record only of rows whose attachment box is ticked, so that a preview
\* without such a row leaves the weekly ledger as it was
C14_AttachmentCompulsory ==
    [][/\ lastOp'.kind = "scan_wsr" =>
             \A k \in 1..Len(lastOp'.records) :
                 (is_valid_wsr_subject(lastOp'.records[k].subject)
                      /\ ~lastOp'.records[k].hasAttachments)
                     => \A i \in 1..Len(dfWsr'.rows) :
                            dfWsr'.rows[i].message_id # lastOp'.records[k].id
       /\ lastOp'.kind = "commit_wsr" =>
             /\ \A k \in 1..Len(lastOp'.records) :
                   \E i \in 1..Len(dfWsr.rows) :
                       /\ dfWsr.rows[i].hasAttachment
                       /\ WeeklyRecordOf(lastOp'.records[k], dfWsr.rows[i])
             /\ (\A i \in 1..Len(dfWsr.rows) : ~dfWsr.rows[i].hasAttachment)
                   => wsrFile' = wsrFile /\ procFile'.ids = procFile.ids]_vars

\* a scan has met a complete weekly report that has no attachment
C14_Witness ==
    /\ lastOp.kind = "scan_wsr"
    /\ \E k \in 1..Len(lastOp.records) : UnattachedWeekly(lastOp.records[k])
    /\ dfWsr.rows = <<>>

\* a confirm has met a complete row whose attachment box is not ticked
C14_UntickedRowSkipped ==
    /\ lastOp.kind = "commit_wsr"
    /\ lastOp.records = <<>>
    /\ \E i \in 1..Len(dfWsr.rows) :
          /\ ~dfWsr.rows[i].hasAttachment
          /\ WsrRowValidUnattached(dfWsr.rows[i], procFile.ids)

-----------------------------------------------------------------------------
(* C15: messages that are already processed *)

PreviewIds(rows) == {rows[i].message_id : i \in 1..Len(rows)}

\* C15: the candidates of a scan, daily or weekly, come from no message whose
\* id is in the processed-id set the scan has read, and a confirm applies no
\* row whose message id is in the processed-id set it has read
C15_ProcessedFiltered ==
    [][/\ lastOp'.kind = "scan_dsr" => PreviewIds(dfDsr'.rows) \cap procFile.ids = {}
       /\ lastOp'.kind = "scan_wsr" => PreviewIds(dfWsr'.rows) \cap procFile.ids = {}
       /\ IsCommit(lastOp') =>
             /\ MessageIds(lastOp'.records) \cap procFile.ids = {}
             /\ (PreviewIds(IF lastOp'.kind = "commit_dsr" THEN dfDsr.rows ELSE dfWsr.rows)
                     \subseteq procFile.ids)
                   => dsrFile' = dsrFile /\ wsrFile' = wsrFile]_vars

\* a scan has met a message that is processed and holds a report
C15_Witness ==
    /\ lastOp.kind \in {"scan_dsr", "scan_wsr"}
    /\ \E k \in 1..Len(lastOp.records) :
          /\ lastOp.records[k].id \in procFile.ids
          /\ RowsOf(IF lastOp.kind = "scan_dsr" THEN "dsr" ELSE "wsr",
                    lastOp.records[k]) # <<>>
    /\ (IF lastOp.kind = "scan_dsr" THEN dfDsr.rows ELSE dfWsr.rows) = <<>>

-----------------------------------------------------------------------------
(* C16: what a scan leaves in storage *)

IsScan(op) == op.kind \in {"scan_dsr", "scan_wsr"}

\* a scan leaves the two ledger files and the processed-id document as they
\* were
C16_ScanWritesNothing ==
    [][IsScan(lastOp') =>
          /\ dsrFile' = dsrFile
          /\ wsrFile' = wsrFile
          /\ procFile' = procFile]_vars

\* C16: a scan leaves the two ledger files as they were and adds no id to
\* the processed ids; the one thing it writes is the processed-id document,
\* with the empty list, when storage holds none
C16_ScanKeepsLedgersAndIds ==
    [][IsScan(lastOp') =>
          /\ dsrFile' = dsrFile
          /\ wsrFile' = wsrFile
          /\ procFile'.ids = procFile.ids
          /\ procFile.exists => procFile' = procFile
          /\ procFile' # procFile => procFile' = [exists |-> TRUE, ids |-> {}]]_vars

\* a scan over ledgers and processed ids of earlier commits has shown its
\* preview
C16_Witness ==
    /\ IsScan(lastOp)
    /\ dfDsr.shown /\ dfWsr.shown
    /\ dsrFile.exists
    /\ procFile.ids # {}

-----------------------------------------------------------------------------
(* C17: rows of the preview that miss a required field *)

DailyMissing(row) ==
    \/ ~Truthy(row.project)
    \/ ~Truthy(row.resource)
    \/ parse_date_string(row.date) = NoDate

WeeklyMissing(row) ==
    \/ ~Truthy(row.project)
    \/ parse_date_string(row.start_date) = NoDate
    \/ parse_date_string(row.end_date) = NoDate
    \/ ~row.hasAttachment

DailyRecordOf(rec, row) ==
    /\ rec.message_id = row.message_id
    /\ rec.project = row.project
    /\ rec.resource = row.resource
    /\ rec.date = parse_date_string(row.date)

\* the rows a confirm has to apply: complete, of a message not yet processed
DailyDue(rows, ids) ==
    {i \in 1..Len(rows) : ~DailyMissing(rows[i]) /\ rows[i].message_id \notin ids}

WeeklyDue(rows, ids) ==
    {i \in 1..Len(rows) : ~WeeklyMissing(rows[i]) /\ rows[i].message_id \notin ids}

DailyRowApplied(wb, row) ==
    DailyMarked(wb, [project |-> row.project, resource |-> row.resource,
                     date |-> parse_date_string(row.date)])

WeeklyRowApplied(wb, row) ==
    WeeklyMarked(wb, [project |-> row.project,
                      date |-> parse_date_string(row.start_date)])

-----------------------------------------------------------------------------
(* C18: a processed-id document that cannot be read *)

\* the run of the handler could not read or parse the document storage holds
UnreadableProcessed(proc, op) == proc.exists /\ op.fails = {"download_processed"}

\* C18: when the processed-id document exists and cannot be read, a scan
\* shows the preview it builds against the empty set, and a confirm builds
\* its records against the empty set and goes on to merge and upload them
C18_UnreadableIsEmpty ==
    [][/\ (lastOp'.kind = "scan_dsr" /\ UnreadableProcessed(procFile, lastOp')) =>
             /\ dfDsr'.shown
             /\ dfDsr'.rows =
                    DsrFrame(parse_inbox_messages_for_preview(lastOp'.records, {}).dsr)
       /\ (lastOp'.kind = "scan_wsr" /\ UnreadableProcessed(procFile, lastOp')) =>
             /\ dfWsr'.shown
             /\ dfWsr'.rows =
                    WsrFrame(parse_inbox_messages_for_preview(lastOp'.records, {}).wsr)
       /\ (IsCommit(lastOp') /\ UnreadableProcessed(procFile, lastOp')) =>
             /\ lastOp'.records =
                    BuildRecords(lastOp'.kind,
                                 IF lastOp'.kind = "commit_dsr" THEN dfDsr.rows
                                                                ELSE dfWsr.rows, {})
             /\ lastOp'.records # <<>> => lastOp'.merged /\ lastOp'.uploaded]_vars

\* a confirm that could not read the document has applied again the row of a
\* message whose id the document holds
C18_Witness ==
    /\ IsCommit(lastOp)
    /\ lastOp.fails = {"download_processed"}
    /\ lastOp.merged
    /\ lastOp.duplicates >= 1

-----------------------------------------------------------------------------
(* C19: the candidates of the daily extractor *)

\* what a block of a body holds
BlockHasDate(blk) ==
    \/ parse_date_string(blk.raw_date) # NoDate
    \/ \E i \in 1..Len(blk.dates) : parse_date_string(blk.dates[i]) # NoDate

BlockHasProject(blk) == Truthy(blk.project) \/ (blk.project = None /\ Truthy(blk.line2))

BlockHasResource(blk) == Truthy(blk.resource)

BlockComplete(blk) == BlockHasDate(blk) /\ BlockHasProject(blk) /\ BlockHasResource(blk)

\* the rows of the daily preview that come from a message
DailyRowsOf(rows, m) == {i \in 1..Len(rows) : rows[i].message_id = m.id}

\* C19: every daily candidate of a scan has a date, a project and a
\* resource; of the blocks of a message the complete ones, and only they,
\* give a candidate each, so that a block without a date or without
\* "Resource Name" is dropped and the blocks after it are still extracted
C19_DailyCandidatesComplete ==
    [][lastOp'.kind = "scan_dsr" =>
          /\ \A i \in 1..Len(dfDsr'.rows) :
                /\ Truthy(dfDsr'.rows[i].project)
                /\ Truthy(dfDsr'.rows[i].resource)
                /\ parse_date_string(dfDsr'.rows[i].date) # NoDate
          /\ \A k \in 1..Len(lastOp'.records) :
                LET m == lastOp'.records[k]
                IN  m.id \notin procFile.ids =>
                       /\ Cardinality(DailyRowsOf(dfDsr'.rows, m)) =
                              Cardinality({b \in 1..Len(m.body.blocks) :
                                              BlockComplete(m.body.blocks[b])})
                       /\ \A b \in 1..Len(m.body.blocks) :
                             BlockComplete(m.body.blocks[b]) =>
                                 \E i \in DailyRowsOf(dfDsr'.rows, m) :
                                     /\ dfDsr'.rows[i].resource = m.body.blocks[b].resource
                                     /\ dfDsr'.rows[i].project \in
                                            {m.body.blocks[b].project, m.body.blocks[b].line2}]_vars

\* a scan has dropped a block without a date and a block that has a date and
\* a project and no "Resource Name", and extracted the block after them
C19_Witness ==
    /\ lastOp.kind = "scan_dsr"
    /\ \E k \in 1..Len(lastOp.records) :
          LET blocks == lastOp.records[k].body.blocks
          IN  /\ Len(blocks) = 3
              /\ ~BlockHasDate(blocks[1])
              /\ BlockHasDate(blocks[2]) /\ BlockHasProject(blocks[2])
              /\ ~BlockHasResource(blocks[2])
              /\ BlockComplete(blocks[3])
    /\ Len(dfDsr.rows) = 1
    /\ dfDsr.rows[1].resource = Str("Ravi")

-----------------------------------------------------------------------------
(* C20: parse_date_string *)

\* what each attempt of parse_date_string makes of a string, in the order of
\* the attempts: the fuzzy parser, then the formats
ParseAttempts(s) == <<FuzzyParse(s)>> \o [i \in 1..Len(fmts) |-> Strptime(s, fmts[i])]

Succeeds(s) == {i \in 1..Len(ParseAttempts(s)) : ParseAttempts(s)[i] # Raises}

\* C20: parse_date_string raises for no string: it returns a calendar date
\* or None; None for nothing and the empty string and when every attempt
\* fails, else the date of the first attempt that succeeds
C20_FirstSuccessOrNone ==
    lastOp.kind = "parse" =>
        LET s == lastOp.records[1]
            d == lastOp.at[1]
        IN  /\ d # Raises
            /\ d = NoDate \/ IsValidDate(d.year, d.month, d.day)
            /\ (s = None \/ s = Str("")) => d = NoDate
            /\ (s # None /\ s # Str("") /\ Succeeds(s) = {}) => d = NoDate
            /\ (s # None /\ s # Str("") /\ Succeeds(s) # {})
                  => d = ParseAttempts(s)[Min(Succeeds(s))]

\* parse_date_string has returned the date of the fuzzy parser for a string
\* that a later format reads as another date
C20_Witness ==
    /\ lastOp.kind = "parse"
    /\ lastOp.records[1] # None
    /\ Cardinality(Succeeds(lastOp.records[1])) = 2
    /\ \E i \in Succeeds(lastOp.records[1]) :
          ParseAttempts(lastOp.records[1])[i] # lastOp.at[1]
    /\ lastOp.at[1] = FuzzyParse(lastOp.records[1])

-----------------------------------------------------------------------------
(* C21: where a merge creates a row *)

\* the workbook a merge loaded and the one it returned
LoadedWb(kind) == IF kind = "daily" THEN dsrFile.wb ELSE wsrFile.wb

ReturnedWb(kind) == IF kind = "daily" THEN dsrFile'.wb ELSE wsrFile'.wb

\* the first data row and the key columns of a month sheet
FirstDataRow(kind) == IF kind = "daily" THEN 3 ELSE 2

KeyColumns(kind) == IF kind = "daily" THEN {1, 2} ELSE {1}

\* the key a record is filed under, column by column
RecordKey(kind, rec, c) ==
    IF c = 1 THEN rec.project ELSE IF kind = "daily" THEN rec.resource ELSE None

\* the last row of a sheet of a workbook, 0 when it has no such sheet
LastRow(wb, n) == IF HasSheet(wb, n) THEN MaxRow(wb.sheets[n]) ELSE 0

\* C21: a merge leaves the key cells of every row of the sheets it loaded as
\* they were, and each record lands either in a row the loaded sheet held
\* under the record's key, or in a row below every row the loaded sheet
\* held, never in a blank row or above the first data row
C21_RowsAppended ==
    [][IsMerge(lastOp') =>
          /\ \A n \in MonthSheets(LoadedWb(lastOp'.kind)) :
                \A r \in 1..LastRow(LoadedWb(lastOp'.kind), n) :
                    \A c \in KeyColumns(lastOp'.kind) :
                        Value(ReturnedWb(lastOp'.kind).sheets[n], r, c)
                            = Value(LoadedWb(lastOp'.kind).sheets[n], r, c)
          /\ \A i \in 1..Len(lastOp'.at) :
                /\ lastOp'.at[i].row >= FirstDataRow(lastOp'.kind)
                /\ \/ lastOp'.at[i].row > LastRow(LoadedWb(lastOp'.kind), lastOp'.at[i].sheet)
                   \/ \A c \in KeyColumns(lastOp'.kind) :
                         Value(LoadedWb(lastOp'.kind).sheets[lastOp'.at[i].sheet],
                               lastOp'.at[i].row, c)
                             = RecordKey(lastOp'.kind, lastOp'.records[i], c)]_vars

\* the markers of a row of a sheet
RowMarkers(ws, r) == {c \in 1..MaxColumn(ws) : Value(ws, r, c) = Y}

\* a merge of one record has created its row, the last of the sheet, below a
\* blank row: the row holds the one marker this merge has written
C21_Witness ==
    /\ IsMerge(lastOp)
    /\ Len(lastOp.at) = 1
    /\ lastOp.processed = 1
    /\ LET ws == ResultWb.sheets[lastOp.at[1].sheet]
           row == lastOp.at[1].row
       IN  /\ row = MaxRow(ws)
           /\ Cardinality(RowMarkers(ws, row)) = 1
           /\ \E r \in FirstDataRow(lastOp.kind)..(row - 1) : Value(ws, r, 1) = None

-----------------------------------------------------------------------------
(* C22: the processed ids in storage over time *)

\* C22: no step of a scan or a commit, failed calls included, takes a
\* message id out of the processed-id document in storage
C22_ProcessedIdsMonotone == [][procFile.ids \subseteq procFile'.ids]_vars

\* a daily commit that could not read the document has saved the ids of its
\* own records alone: a weekly row that is applied in the weekly ledger is of
\* a message the document no longer holds
C22_Witness ==
    /\ lastOp.kind = "commit_dsr"
    /\ lastOp.fails = {"download_processed"}
    /\ lastOp.uploaded
    /\ procFile.ids = MessageIds(lastOp.records)
    /\ \E i \in 1..Len(dfWsr.rows) :
          /\ WeeklyRowApplied(wsrFile.wb, dfWsr.rows[i])
          /\ dfWsr.rows[i].message_id \notin procFile.ids

-----------------------------------------------------------------------------
(* C23: which messages a commit marks processed *)

\* C23: a commit adds a message id to the processed ids only when every row
\* of that message in the preview it commits is complete and has its marker
\* in the ledger
C23_ProcessedOnlyWhenAllApplied ==
    [][/\ lastOp'.kind = "commit_dsr" =>
             \A i \in 1..Len(dfDsr.rows) :
                 dfDsr.rows[i].message_id \in procFile'.ids \ procFile.ids
                     => /\ ~DailyMissing(dfDsr.rows[i])
                        /\ DailyRowApplied(dsrFile'.wb, dfDsr.rows[i])
       /\ lastOp'.kind = "commit_wsr" =>
             \A i \in 1..Len(dfWsr.rows) :
                 dfWsr.rows[i].message_id \in procFile'.ids \ procFile.ids
                     => /\ ~WeeklyMissing(dfWsr.rows[i])
                        /\ WeeklyRowApplied(wsrFile'.wb, dfWsr.rows[i])]_vars

\* a commit has applied one row of a message, skipped another row of the
\* same message that misses a field, and saved the id of the message
C23_Witness ==
    /\ lastOp.kind = "commit_dsr"
    /\ lastOp.uploaded
    /\ \E i, j \in 1..Len(dfDsr.rows) :
          /\ dfDsr.rows[i].message_id = dfDsr.rows[j].message_id
          /\ DailyMissing(dfDsr.rows[i])
          /\ ~DailyMissing(dfDsr.rows[j])
          /\ DailyRowApplied(dsrFile.wb, dfDsr.rows[j])
          /\ dfDsr.rows[j].message_id \in MessageIds(lastOp.records)
          /\ dfDsr.rows[j].message_id \in procFile.ids

-----------------------------------------------------------------------------
(* C24: a message that is a daily and a weekly report *)

\* the candidates of a message, as the previews show them
DailyCandidates(m) == DsrFrame(DsrRowsOf(m))

WeeklyCandidates(m) == WsrFrame(WsrRowsOf(m))

\* some candidate of the message has no marker in the ledger yet
DailyPending(wb, m) ==
    \E i \in 1..Len(DailyCandidates(m)) : ~DailyRowApplied(wb, DailyCandidates(m)[i])

WeeklyPending(wb, m) ==
    \E i \in 1..Len(WeeklyCandidates(m)) : ~WeeklyRowApplied(wb, WeeklyCandidates(m)[i])

\* C24: a scan in which every call succeeds surfaces every message of the
\* inbox that holds a candidate of the scan's kind not yet in that kind's
\* ledger, whatever the other pipeline has committed of the message
C24_PipelinesIndependent ==
    [][/\ (lastOp'.kind = "scan_wsr" /\ lastOp'.fails = {}) =>
             \A k \in 1..Len(lastOp'.records) :
                 WeeklyPending(wsrFile.wb, lastOp'.records[k])
                     => lastOp'.records[k].id \in PreviewIds(dfWsr'.rows)
       /\ (lastOp'.kind = "scan_dsr" /\ lastOp'.fails = {}) =>
             \A k \in 1..Len(lastOp'.records) :
                 DailyPending(dsrFile.wb, lastOp'.records[k])
                     => lastOp'.records[k].id \in PreviewIds(dfDsr'.rows)]_vars

\* a weekly scan has left out a message whose daily record is committed and
\* whose weekly candidate is in no ledger, and has shown another message
C24_Witness ==
    /\ lastOp.kind = "scan_wsr"
    /\ lastOp.fails = {}
    /\ ~wsrFile.exists
    /\ dfWsr.shown
    /\ \E k \in 1..Len(lastOp.records) :
          /\ DailyCandidates(lastOp.records[k]) # <<>>
          /\ ~DailyPending(dsrFile.wb, lastOp.records[k])
          /\ WeeklyCandidates(lastOp.records[k]) # <<>>
          /\ lastOp.records[k].id \in procFile.ids
          /\ lastOp.records[k].id \notin PreviewIds(dfWsr.rows)

-----------------------------------------------------------------------------
(* C25: the counters a merge returns *)

\* the cells of a workbook that hold the marker
MarkedCells(wb) ==
    UNION {{<<n, p>> : p \in {q \in DOMAIN wb.sheets[n] : wb.sheets[n][q].value = Y}} :
           n \in DOMAIN wb.sheets}

\* C25: the two counters of a merge add up to the number of records of the
\* batch, and `processed` is the number of cells that hold the marker in the
\* workbook returned and did not hold it in the workbook loaded
C25_CountersAccount ==
    [][IsMerge(lastOp') =>
          /\ lastOp'.processed + lastOp'.duplicates = Len(lastOp'.records)
          /\ lastOp'.processed =
                 Cardinality(MarkedCells(ReturnedWb(lastOp'.kind))
                                 \ MarkedCells(LoadedWb(lastOp'.kind)))]_vars

\* a merge of two records for one cell that did not hold the marker has
\* counted one of them as processed and one as a duplicate
C25_Witness ==
    /\ IsMerge(lastOp)
    /\ Len(lastOp.records) = 2
    /\ lastOp.processed = 1
    /\ lastOp.duplicates = 1
    /\ ~lastOp.at[1].dup
    /\ lastOp.at[2].dup
    /\ lastOp.at[1].row = lastOp.at[2].row
    /\ lastOp.at[1].col = lastOp.at[2].col
    /\ Cardinality(MarkedCells(ResultWb)) = 1

====
